---- MODULE Spec2Model ----
(***************************************************************************)
(* A model of the declarative query-template engine of ds-mcp              *)
(* (src/src/ds_mcp/tables/base.py): macro expansion, the SQL safety check, *)
(* LIMIT governance, the rollback-and-retry execution loop and the result  *)
(* envelope, driven by tool invocations against a fake warehouse cursor.   *)
(*                                                                         *)
(* SQL text is modelled character by character on TLA+ strings (TLC        *)
(* evaluates Len, \o, SubSeq, Head and Tail on strings), so that strip,    *)
(* upper, startswith, the substring test and the regular expressions are   *)
(* computed the way the Python code computes them.                         *)
(***************************************************************************)
EXTENDS Integers, Sequences, FiniteSets, TLC

(***************************************************************************)
(* Python values: None and int, tagged so that they can be compared.       *)
(***************************************************************************)
None == [k |-> "None", v |-> 0]
PyInt(n) == [k |-> "int", v |-> n]
PyStr(t) == [k |-> "str", v |-> t]
PyTuple(seq) == [k |-> "tuple", v |-> seq]
PyList(seq) == [k |-> "list", v |-> seq]
IsNone(x) == x.k = "None"
\* bool(x) for None, int and str
Truthy(x) == (x.k = "int" /\ x.v # 0) \/ (x.k = "str" /\ x.v # "")
\* x or y
PyOr(x, y) == IF Truthy(x) THEN x ELSE y
Min(a, b) == IF a <= b THEN a ELSE b
Max(a, b) == IF a >= b THEN a ELSE b

(***************************************************************************)
(* Strings (ASCII): the str methods and character classes the code uses.   *)
(***************************************************************************)
Char(s, i) == SubSeq(s, i, i)
Lowers == "abcdefghijklmnopqrstuvwxyz"
Uppers == "ABCDEFGHIJKLMNOPQRSTUVWXYZ"
Digits == "0123456789"
CharsOf(s) == {Char(s, i) : i \in 1..Len(s)}
LowerSet == CharsOf(Lowers)
UpperSet == CharsOf(Uppers)
DigitSet == CharsOf(Digits)
\* \s of the re module (ASCII part)
Whitespace == {" ", "\t", "\n", "\r"}
IsSpace(c) == c \in Whitespace
IsDigit(c) == c \in DigitSet
\* \w of the re module (ASCII part): [A-Za-z0-9_]
IsWordChar(c) == c \in LowerSet \cup UpperSet \cup DigitSet \cup {"_"}
UpperMap == [c \in LowerSet |-> Char(Uppers, CHOOSE i \in 1..26 : Char(Lowers, i) = c)]
UpperChar(c) == IF c \in LowerSet THEN UpperMap[c] ELSE c

RECURSIVE StrUpper(_)
\* str.upper(), by halves
StrUpper(s) ==
    IF Len(s) = 0 THEN ""
    ELSE IF Len(s) = 1 THEN UpperChar(s)
    ELSE LET h == Len(s) \div 2
         IN  StrUpper(SubSeq(s, 1, h)) \o StrUpper(SubSeq(s, h + 1, Len(s)))

LowerMap == [c \in UpperSet |-> Char(Lowers, CHOOSE i \in 1..26 : Char(Uppers, i) = c)]
LowerChar(c) == IF c \in UpperSet THEN LowerMap[c] ELSE c

RECURSIVE StrLower(_)
\* str.lower(), by halves
StrLower(s) ==
    IF Len(s) = 0 THEN ""
    ELSE IF Len(s) = 1 THEN LowerChar(s)
    ELSE LET h == Len(s) \div 2
         IN  StrLower(SubSeq(s, 1, h)) \o StrLower(SubSeq(s, h + 1, Len(s)))

\* The end (exclusive) of the longest run of characters satisfying P from j on.
RunEnd(s, j, P(_)) ==
    CHOOSE k \in j..(Len(s) + 1) :
        /\ \A m \in j..(k - 1) : P(Char(s, m))
        /\ (k = Len(s) + 1 \/ ~P(Char(s, k)))

\* The start of the longest run of characters satisfying P that ends at j.
RunStart(s, j, P(_)) ==
    CHOOSE k \in 1..(j + 1) :
        /\ \A m \in k..j : P(Char(s, m))
        /\ (k = 1 \/ ~P(Char(s, k - 1)))

\* str.lstrip(), str.rstrip(), str.strip()
LStrip(s) == SubSeq(s, RunEnd(s, 1, IsSpace), Len(s))
RStrip(s) == SubSeq(s, 1, RunStart(s, Len(s), IsSpace) - 1)
Strip(s) == LStrip(RStrip(s))
IsSemicolon(c) == c = ";"
\* str.rstrip(";")
RStripSemicolons(s) == SubSeq(s, 1, RunStart(s, Len(s), IsSemicolon) - 1)

\* str.startswith(p)
StartsWith(s, p) == Len(s) >= Len(p) /\ SubSeq(s, 1, Len(p)) = p
\* s[i:i+len(p)] == p
OccursAt(s, p, i) == i >= 1 /\ i + Len(p) - 1 <= Len(s) /\ SubSeq(s, i, i + Len(p) - 1) = p
\* p in s
Contains(s, p) == \E i \in 1..(Len(s) - Len(p) + 1) : OccursAt(s, p, i)
\* p occurs in s as a whole word (\bp\b)
ContainsWord(s, p) ==
    \E i \in 1..(Len(s) - Len(p) + 1) :
        /\ OccursAt(s, p, i)
        /\ (i = 1 \/ ~IsWordChar(Char(s, i - 1)))
        /\ (i + Len(p) > Len(s) \/ ~IsWordChar(Char(s, i + Len(p))))

RECURSIVE ParseInt(_)
\* int(digits)
ParseInt(d) ==
    IF d = "" THEN 0
    ELSE 10 * ParseInt(SubSeq(d, 1, Len(d) - 1))
         + (CHOOSE i \in 0..9 : Char(Digits, i + 1) = Char(d, Len(d)))

SetMin(S) == CHOOSE x \in S : \A y \in S : x <= y

(***************************************************************************)
(* The table definition the executor is built for (the stub table of the   *)
(* tests: schema analytics, table dummy, no database) and its row caps.    *)
(***************************************************************************)
DefaultLimit == 3
MaxLimit == 5
schema_name == "analytics"
table_name == "dummy"
\* SimpleTableDefinition.full_table_name() with database_name None
full_table_name == schema_name \o "." \o table_name

(***************************************************************************)
(* Macros.  A macro value is a literal string or a callable taking the     *)
(* alias; the callable modelled is the shipped EVENT_TS lambda, which      *)
(* appends " AS <alias>" to its text when an alias is given.               *)
(***************************************************************************)
Literal(t) == [kind |-> "literal", text |-> t]
Callable(t) == [kind |-> "callable", text |-> t]

\* SimpleTableExecutor.__init__: the built-in macros, updated with the definition's
MacroNames ==
    {"TABLE", "FULL_TABLE", "SCHEMA", "TABLE_ONLY", "TODAY", "ISSUE_TYPE", "OBS_HOUR",
     "EVENT_TS", "PCA", "MLA", "SRC"}
\* SRC is a macro of a table author whose value uses another macro.
macros ==
    [n \in MacroNames |->
        CASE n = "TABLE" -> Literal(full_table_name)
          [] n = "FULL_TABLE" -> Literal(full_table_name)
          [] n = "SCHEMA" -> Literal(schema_name)
          [] n = "TABLE_ONLY" -> Literal(table_name)
          [] n = "TODAY" -> Literal("CAST(TO_CHAR(CURRENT_DATE, 'YYYYMMDD') AS INT)")
          [] n = "ISSUE_TYPE" ->
                 Literal("COALESCE(NULLIF(TRIM(issue_reasons::VARCHAR), ''), "
                         \o "NULLIF(TRIM(issue_sources::VARCHAR), ''))")
          [] n = "OBS_HOUR" ->
                 Literal("DATE_TRUNC('hour', COALESCE(observationtimestamp, actualscheduletimestamp))")
          [] n = "EVENT_TS" -> Callable("COALESCE(observationtimestamp, actualscheduletimestamp)")
          [] n = "PCA" -> Literal("prod.monitoring.provider_combined_audit")
          [] n = "MLA" -> Literal("analytics.market_level_anomalies_v3")
          [] n = "SRC" -> Literal("{{TABLE}} t")]

IsMacroNameChar(c) == c \in UpperSet \cup DigitSet \cup {"_"}
IsAliasStart(c) == c \in LowerSet \cup UpperSet \cup {"_"}

\* _MACRO_PATTERN anchored at i: \{\{([A-Z0-9_]+)(?::([A-Za-z_][A-Za-z0-9_]*))?\}\}
\* The match as [ok, name, alias, end], end being the index after the match.
MacroMatchAt(s, i) ==
    LET ns == i + 2
        ne == RunEnd(s, ns, IsMacroNameChar)
        as == ne + 1
        ae == RunEnd(s, as, IsWordChar)
        no == [ok |-> FALSE, name |-> "", alias |-> "", end |-> i]
    IN  IF ~OccursAt(s, "{{", i) \/ ne = ns THEN no
        ELSE IF OccursAt(s, "}}", ne)
             THEN [ok |-> TRUE, name |-> SubSeq(s, ns, ne - 1), alias |-> "", end |-> ne + 2]
        ELSE IF /\ OccursAt(s, ":", ne)
                /\ as <= Len(s)
                /\ IsAliasStart(Char(s, as))
                /\ OccursAt(s, "}}", ae)
             THEN [ok |-> TRUE, name |-> SubSeq(s, ns, ne - 1),
                   alias |-> SubSeq(s, as, ae - 1), end |-> ae + 2]
        ELSE no

RECURSIVE FormatFrom(_, _, _)
\* value.format(alias=alias) from position i on, for values whose replacement
\* fields are plain {alias}; [ok, text], ok FALSE when format raises KeyError, IndexError
\* or ValueError ({}, {0}, {other}, a single brace).
FormatFrom(s, i, alias) ==
    LET braces == {j \in i..Len(s) : Char(s, j) \in {"{", "}"}}
    IN  IF braces = {} THEN [ok |-> TRUE, text |-> SubSeq(s, i, Len(s))]
        ELSE LET j == SetMin(braces)
                 step(n, out) ==
                     LET rest == FormatFrom(s, j + n, alias)
                     IN  [ok |-> rest.ok, text |-> SubSeq(s, i, j - 1) \o out \o rest.text]
             IN  IF OccursAt(s, "{{", j) THEN step(2, "{")
                 ELSE IF OccursAt(s, "}}", j) THEN step(2, "}")
                 ELSE IF OccursAt(s, "{alias}", j) THEN step(7, alias)
                 ELSE [ok |-> FALSE, text |-> ""]

\* A faulty variant: an unregistered placeholder is dropped.
MacroReplacement_DropUnknown(s, i, m) ==
    IF m.name \notin DOMAIN macros THEN ""
    ELSE LET value == macros[m.name]
         IN  IF value.kind = "callable"
             THEN value.text \o (IF m.alias # "" THEN " AS " \o m.alias ELSE "")
             ELSE IF m.alias # "" /\ FormatFrom(value.text, 1, m.alias).ok
                  THEN FormatFrom(value.text, 1, m.alias).text
                  ELSE value.text

\* expand_macros.replacer: the replacement of one match
MacroReplacement(s, i, m) ==
    IF m.name \notin DOMAIN macros THEN SubSeq(s, i, m.end - 1)
    ELSE LET value == macros[m.name]
         IN  IF value.kind = "callable"
             THEN value.text \o (IF m.alias # "" THEN " AS " \o m.alias ELSE "")
             ELSE IF m.alias # "" /\ FormatFrom(value.text, 1, m.alias).ok
                  THEN FormatFrom(value.text, 1, m.alias).text
                  ELSE value.text

RECURSIVE ExpandFrom(_, _)
\* The text from i on with every match replaced: the leftmost match at or after i,
\* then on from its end.
ExpandFrom(s, i) ==
    LET hits == {j \in i..Len(s) : MacroMatchAt(s, j).ok}
    IN  IF hits = {} THEN SubSeq(s, i, Len(s))
        ELSE LET j == SetMin(hits)
                 m == MacroMatchAt(s, j)
             IN  SubSeq(s, i, j - 1) \o MacroReplacement(s, j, m) \o ExpandFrom(s, m.end)

\* SimpleTableExecutor.expand_macros: one left-to-right pass of _MACRO_PATTERN.sub
expand_macros(sql) == ExpandFrom(sql, 1)

(***************************************************************************)
(* The safety check and the Limit Governor: _prepare_query.                *)
(***************************************************************************)
FORBIDDEN_KEYWORDS ==
    {"DELETE", "UPDATE", "INSERT", "DROP", "TRUNCATE", "ALTER", "CREATE", "COPY",
     "UNLOAD", "GRANT", "REVOKE"}

\* A faulty variant: the keyword is looked for at the start of the text only.
KeywordHit_Prefix(upper, keyword) == StartsWith(upper, keyword)

\* `keyword in upper`
KeywordHit(upper, keyword) == Contains(upper, keyword)

\* _LIMIT_PATTERN anchored at i: \blimit\b\s+(\d+), ignoring case
LimitMatchAt(s, i) ==
    LET ws == i + 5
        ds == RunEnd(s, ws, IsSpace)
        de == RunEnd(s, ds, IsDigit)
    IN  IF /\ i + 4 <= Len(s)
           /\ StrUpper(SubSeq(s, i, i + 4)) = "LIMIT"
           /\ (i = 1 \/ ~IsWordChar(Char(s, i - 1)))
           /\ ds > ws
           /\ de > ds
        THEN [ok |-> TRUE, start |-> i, digits |-> SubSeq(s, ds, de - 1), end |-> de]
        ELSE [ok |-> FALSE, start |-> i, digits |-> "", end |-> i]

\* _LIMIT_PATTERN.search(s): the leftmost match
LimitSearch(s) ==
    LET hits == {i \in 1..Len(s) : LimitMatchAt(s, i).ok}
    IN  IF hits = {} THEN [ok |-> FALSE, start |-> 0, digits |-> "", end |-> 0]
        ELSE LimitMatchAt(s, SetMin(hits))

\* A faulty variant: every LIMIT clause is rewritten (count=1 left out).
RECURSIVE LimitSubFirst_All(_, _)
LimitSubFirst_All(s, adjusted) ==
    IF ~LimitSearch(s).ok THEN s
    ELSE SubSeq(s, 1, LimitSearch(s).start - 1) \o "LIMIT " \o ToString(adjusted)
         \o LimitSubFirst_All(SubSeq(s, LimitSearch(s).end, Len(s)), adjusted)

\* _LIMIT_PATTERN.sub(f"LIMIT {adjusted}", s, count=1)
LimitSubFirst(s, adjusted) ==
    LET m == LimitSearch(s)
    IN  IF ~m.ok THEN s
        ELSE SubSeq(s, 1, m.start - 1) \o "LIMIT " \o ToString(adjusted)
             \o SubSeq(s, m.end, Len(s))

Rejected(msg) == [ok |-> FALSE, error |-> msg, sql |-> "", limit |-> None]
Prepared(sql, limit) == [ok |-> TRUE, error |-> "", sql |-> sql, limit |-> limit]

\* A faulty variant: the table ceiling is not applied.
ComputedCap_NoCeiling(max_rows) == Max(1, PyOr(max_rows, PyInt(DefaultLimit)).v)

\* limit = max(1, min(max_rows or default_limit, max_limit))
ComputedCap(max_rows) == Max(1, Min(PyOr(max_rows, PyInt(DefaultLimit)).v, MaxLimit))

\* A faulty variant: the LIMIT is appended after the trailing semicolons.
GovernLimit_KeepSemicolons(expanded, max_rows) ==
    LET limit == ComputedCap(max_rows)
        match == LimitSearch(expanded)
    IN  IF match.ok
        THEN LET existing == ParseInt(match.digits)
                 adjusted == Min(existing, limit)
             IN  Prepared(IF adjusted # existing THEN LimitSubFirst(expanded, adjusted)
                          ELSE expanded,
                          PyInt(adjusted))
        ELSE Prepared(expanded \o " LIMIT " \o ToString(limit), PyInt(limit))

\* The Limit Governor of _prepare_query (the part after `if not enforce_limit`)
GovernLimit(expanded, max_rows) ==
    LET limit == ComputedCap(max_rows)
        match == LimitSearch(expanded)
    IN  IF match.ok
        THEN LET existing == ParseInt(match.digits)
                 adjusted == Min(existing, limit)
             IN  Prepared(IF adjusted # existing THEN LimitSubFirst(expanded, adjusted)
                          ELSE expanded,
                          PyInt(adjusted))
        ELSE Prepared(RStripSemicolons(expanded) \o " LIMIT " \o ToString(limit), PyInt(limit))

\* _prepare_query: the set of its outcomes, a ValueError (ok FALSE) or (sql, limit).
\* _FORBIDDEN_KEYWORDS is a set of str, iterated in hash order: when the text holds
\* several keywords, any of them may be the one reported.
_prepare_query(sql, max_rows, enforce_limit) ==
    LET stripped == Strip(sql)
        expanded == expand_macros(stripped)
        upper == StrUpper(LStrip(expanded))
        hits == {keyword \in FORBIDDEN_KEYWORDS : KeywordHit(upper, keyword)}
    IN  IF stripped = "" THEN {Rejected("SQL query cannot be empty")}
        ELSE IF ~(StartsWith(upper, "SELECT") \/ StartsWith(upper, "WITH"))
             THEN {Rejected("Only SELECT or WITH queries are allowed")}
        ELSE IF hits # {}
             THEN {Rejected("Forbidden keyword detected: " \o keyword) : keyword \in hits}
        ELSE IF ~enforce_limit THEN {Prepared(expanded, max_rows)}
        ELSE {GovernLimit(expanded, max_rows)}


(***************************************************************************)
(* The warehouse cursor (the collaborator behind get_connector): what      *)
(* execute, fetchmany and fetchall answer.                                 *)
(***************************************************************************)
\* The largest result set the fake warehouse holds for a statement.
MaxAvail == 7

\* cursor.description: the column names of every result set of the model
Columns == <<"id", "val", "at">>

\* The raw cells a driver hands back: an int key; by row, a str, None, a bytes value
\* (its bytes, one of them no UTF-8), a date, a Decimal (unscaled value and scale),
\* a float and a bool; and, by row, a datetime, bytes that are no UTF-8 at all, a
\* negative Decimal, a list, a negative int, an empty str and None.
RawRow(i) ==
    <<PyInt(i),
      CASE i % 7 = 1 -> PyStr("x")
        [] i % 7 = 2 -> None
        [] i % 7 = 3 -> [k |-> "bytes", v |-> <<97, 255, 98>>]
        [] i % 7 = 4 -> [k |-> "date", v |-> <<2024, 1, 2>>]
        [] i % 7 = 5 -> [k |-> "Decimal", v |-> <<150, 2>>]
        [] i % 7 = 6 -> [k |-> "float", v |-> "0.5"]
        [] OTHER -> [k |-> "bool", v |-> "True"],
      CASE i % 7 = 1 -> [k |-> "datetime", v |-> <<2024, 11, 30, 7, 5, 0>>]
        [] i % 7 = 2 -> [k |-> "bytes", v |-> <<128, 192>>]
        [] i % 7 = 3 -> [k |-> "Decimal", v |-> <<0 - 5, 2>>]
        [] i % 7 = 4 -> [k |-> "list", v |-> <<PyInt(1), PyStr("a")>>]
        [] i % 7 = 5 -> PyInt(0 - 1)
        [] i % 7 = 6 -> PyStr("")
        [] OTHER -> None>>

\* The messages a failing execute carries: the two the code takes for an aborted
\* transaction (the SQLSTATE, the English phrase) and one other failure.
MsgSqlState == "ERROR: 25P02 in_failed_sql_transaction"
MsgAborted == "current transaction is aborted, commands ignored until end of transaction block"
MsgSyntax == "syntax error at or near FROM"
ExecErrors == {MsgSqlState, MsgAborted, MsgSyntax}
MsgConnect == "could not connect to server"

\* A statement that ends in LIMIT n (before any closing semicolons) yields at most n
\* rows: the warehouse honours the outermost LIMIT of what it is given.
BackendCap(sql) ==
    LET body == RStrip(RStripSemicolons(RStrip(sql)))
        ds == RunStart(body, Len(body), IsDigit)
        ws == RunStart(body, ds - 1, IsSpace)
    IN  IF /\ ds <= Len(body)
           /\ ws < ds
           /\ ws >= 6
           /\ LimitMatchAt(body, ws - 5).ok
        THEN ParseInt(SubSeq(body, ds, Len(body)))
        ELSE MaxAvail

\* The sizes of the result set execute(sql) may produce.
ResultSizes(sql) == 0..Min(MaxAvail, BackendCap(sql))

\* The numbers of rows `cursor.fetchmany(limit) if limit else cursor.fetchall()` may
\* return from a result set of n rows; fetchmany of a negative size is left to the
\* driver, so any prefix is possible.
FetchedCounts(limit, n) ==
    IF ~Truthy(limit) THEN {n}
    ELSE IF limit.v > 0 THEN {Min(n, limit.v)}
    ELSE 0..n

(***************************************************************************)
(* Row normalisation and the result envelope of _run_select.               *)
(***************************************************************************)
RECURSIVE JoinNames(_)
\* ', '.join(names)
JoinNames(names) ==
    IF Len(names) = 0 THEN ""
    ELSE IF Len(names) = 1 THEN names[1]
    ELSE names[1] \o ", " \o JoinNames(Tail(names))

\* type(value).__name__
TypeName(value) == IF value.k = "None" THEN "NoneType" ELSE value.k

\* repr(value) of None, an int or a str (a str without quotes in it)
ReprOf(value) ==
    IF value.k = "str" THEN "'" \o value.v \o "'"
    ELSE IF value.k = "int" THEN ToString(value.v)
    ELSE "None"

\* str(value) of None, an int, a str, or a list or tuple of these
StrOf(value) ==
    CASE value.k = "str" -> value.v
      [] value.k = "int" -> ToString(value.v)
      [] value.k = "list" ->
             "[" \o JoinNames([i \in 1..Len(value.v) |-> ReprOf(value.v[i])]) \o "]"
      [] value.k = "tuple" ->
             "(" \o JoinNames([i \in 1..Len(value.v) |-> ReprOf(value.v[i])])
                 \o (IF Len(value.v) = 1 THEN "," ELSE "") \o ")"
      [] OTHER -> "None"

\* The printable ASCII characters by code: the space (32) to the underscore (95), the
\* letter a (97) to the tilde (126); the grave accent (96) is not among the inputs.
AsciiTo95 == " !\"#$%&'()*+,-./0123456789:;<=>?@ABCDEFGHIJKLMNOPQRSTUVWXYZ[\\]^_"
AsciiFrom97 == "abcdefghijklmnopqrstuvwxyz{|}~"
Ascii(b) ==
    IF b <= 95 THEN SubSeq(AsciiTo95, b - 31, b - 31) ELSE SubSeq(AsciiFrom97, b - 96, b - 96)
\* The bytes that are part of no UTF-8 sequence wherever they stand next to ASCII:
\* a continuation byte without its lead, 0xC0, 0xC1 and 0xF5..0xFF.
NeverUtf8(b) == b \in 128..193 \/ b \in 245..255
RECURSIVE decode(_)
\* bytes.decode("utf-8", "ignore") of printable ASCII bytes and bytes that are no UTF-8
decode(bytes) ==
    IF Len(bytes) = 0 THEN ""
    ELSE IF NeverUtf8(Head(bytes)) THEN decode(Tail(bytes))
    ELSE Ascii(Head(bytes)) \o decode(Tail(bytes))

RECURSIVE ZeroPad(_, _)
\* '%0*d' % (width, n) for n >= 0
ZeroPad(n, width) ==
    IF Len(ToString(n)) >= width THEN ToString(n) ELSE "0" \o ZeroPad(n, width - 1)
\* date.isoformat() and datetime.isoformat() (no microseconds, no zone)
isoformat(value) ==
    ZeroPad(value.v[1], 4) \o "-" \o ZeroPad(value.v[2], 2) \o "-" \o ZeroPad(value.v[3], 2)
    \o (IF value.k = "datetime"
        THEN "T" \o ZeroPad(value.v[4], 2) \o ":" \o ZeroPad(value.v[5], 2)
                 \o ":" \o ZeroPad(value.v[6], 2)
        ELSE "")

Pow10(n) == IF n = 0 THEN 1 ELSE IF n = 1 THEN 10 ELSE 100
Abs(n) == IF n < 0 THEN 0 - n ELSE n
\* str(Decimal) of unscaled * 10^-scale, scale 0..2
DecimalStr(unscaled, scale) ==
    (IF unscaled < 0 THEN "-" ELSE "")
    \o ToString(Abs(unscaled) \div Pow10(scale))
    \o (IF scale = 0 THEN "" ELSE "." \o ZeroPad(Abs(unscaled) % Pow10(scale), scale))

\* str(value) of a raw cell that is none of None, str, int, float, bool, bytes and
\* has no isoformat
StrOfCell(value) ==
    IF value.k = "Decimal" THEN DecimalStr(value.v[1], value.v[2]) ELSE StrOf(value)

\* A faulty variant: only bytes and values with isoformat are converted.
CoerceCell_KeepOthers(value) ==
    IF value.k = "bytes" THEN PyStr(decode(value.v))
    ELSE IF value.k \in {"date", "datetime"} THEN PyStr(isoformat(value))
    ELSE value

\* _coerce_row, one cell
CoerceCell(value) ==
    IF value.k = "bytes" THEN PyStr(decode(value.v))
    ELSE IF value.k \in {"date", "datetime"} THEN PyStr(isoformat(value))
    ELSE IF value.k \notin {"None", "str", "int", "float", "bool"} THEN PyStr(StrOfCell(value))
    ELSE value

\* _coerce_row: one entry per column name, of the last column of that name
_coerce_row(columns, values) ==
    [c \in {columns[i] : i \in 1..Len(columns)} |->
        CoerceCell(values[CHOOSE i \in 1..Len(columns) :
                             /\ columns[i] = c
                             /\ \A j \in (i + 1)..Len(columns) : columns[j] # c])]

\* truncated = bool(limit) and len(rows) == limit
TruncatedFlag(limit, nrows) == Truthy(limit) /\ nrows = limit.v

\* A faulty variant: row_count reports the cap instead of the number of rows.
SuccessEnvelope_RowCountCap(sql, limit, fetched) ==
    LET rows == [i \in 1..fetched |-> RawRow(i)]
        data == [i \in 1..fetched |-> _coerce_row(Columns, rows[i])]
    IN  [columns |-> Columns,
         rows |-> data,
         row_count |-> IF Truthy(limit) THEN limit.v ELSE Len(data),
         truncated |-> TruncatedFlag(limit, Len(rows)),
         sql |-> sql]

\* The payload _run_select returns for `fetched` rows
SuccessEnvelope(sql, limit, fetched) ==
    LET rows == [i \in 1..fetched |-> RawRow(i)]
        data == [i \in 1..fetched |-> _coerce_row(Columns, rows[i])]
    IN  [columns |-> Columns,
         rows |-> data,
         row_count |-> Len(data),
         truncated |-> TruncatedFlag(limit, Len(rows)),
         sql |-> sql]

\* fetch: return {"error": str(exc)}
ErrorEnvelope(msg) == [error |-> msg]

\* A faulty variant: any failure of the first attempt is retried.
ShouldRetry_AnyFailure(attempts, msg) == attempts = 0

\* A faulty variant: only the SQLSTATE is recognised.
ShouldRetry_OnlySqlState(attempts, msg) == attempts = 0 /\ Contains(msg, "25P02")

\* attempts == 0 and ("25P02" in msg or "aborted" in msg)
ShouldRetry(attempts, msg) == attempts = 0 /\ (Contains(msg, "25P02") \/ Contains(msg, "aborted"))


(***************************************************************************)
(* Parameter specifications and generated SQL tools.                       *)
(***************************************************************************)
Ok(value) == [ok |-> TRUE, value |-> value, type |-> "", msg |-> ""]
Raise(type, msg) == [ok |-> FALSE, value |-> None, type |-> type, msg |-> msg]

\* A ParameterSpec.  default is given only when has_default; min_value, max_value and
\* choices are None when not declared; coerce and transform name the callable.
Param(name) ==
    [name |-> name, has_default |-> FALSE, default |-> None, coerce |-> "none",
     transform |-> "none", min_value |-> None, max_value |-> None, choices |-> None,
     kind |-> "scalar", include_in_sql |-> TRUE, as_literal |-> FALSE]
WithDefault(param, default) == [param EXCEPT !.has_default = TRUE, !.default = default]

\* A text int() accepts: optional blanks, an optional sign, digits, optional blanks.
Unsigned(body) ==
    IF body # "" /\ Char(body, 1) \in {"+", "-"} THEN SubSeq(body, 2, Len(body)) ELSE body
AllDigits(digits) == digits # "" /\ \A i \in 1..Len(digits) : IsDigit(Char(digits, i))
IntOfDigits(t, body, digits) ==
    IF AllDigits(digits)
    THEN Ok(PyInt(IF Char(body, 1) = "-" THEN 0 - ParseInt(digits) ELSE ParseInt(digits)))
    ELSE Raise("ValueError", "invalid literal for int() with base 10: '" \o t \o "'")
IntOfBody(t, body) == IntOfDigits(t, body, Unsigned(body))
\* int(t) of a str
IntLiteral(t) == IntOfBody(t, Strip(t))

\* self.coerce(value) for the callables the shipped specs use, int, str and
\* lambda v: str(v).strip().upper(), and for a lower-casing lambda v: str(v).lower()
Coerce(coerce, value) ==
    CASE coerce = "int" ->
            IF value.k = "int" THEN Ok(value)
            ELSE IF value.k = "str" THEN IntLiteral(value.v)
            ELSE Raise("TypeError", "int() argument must be a string, a bytes-like object "
                                    \o "or a real number, not '" \o TypeName(value) \o "'")
      [] coerce = "str" -> Ok(PyStr(StrOf(value)))
      [] coerce = "str_lower" -> Ok(PyStr(StrLower(StrOf(value))))
      [] coerce = "strip_upper" -> Ok(PyStr(StrUpper(Strip(StrOf(value)))))
      [] OTHER -> Ok(value)

\* A faulty variant: the upper bound is not looked at.
_validate_scalar_NoMax(param, value) ==
    IF ~IsNone(param.min_value) /\ value.k = "int" /\ value.v < param.min_value.v
    THEN Raise("ValueError", param.name \o " must be >= " \o ToString(param.min_value.v))
    ELSE IF /\ ~IsNone(param.choices)
            /\ \A i \in 1..Len(param.choices.v) : StrOf(param.choices.v[i]) # StrOf(value)
    THEN Raise("ValueError", param.name \o " must be one of "
                   \o JoinNames([i \in 1..Len(param.choices.v) |-> StrOf(param.choices.v[i])]))
    ELSE Ok(value)

\* ParameterSpec._validate_scalar
_validate_scalar(param, value) ==
    IF ~IsNone(param.min_value) /\ value.k = "int" /\ value.v < param.min_value.v
    THEN Raise("ValueError", param.name \o " must be >= " \o ToString(param.min_value.v))
    ELSE IF ~IsNone(param.max_value) /\ value.k = "int" /\ value.v > param.max_value.v
    THEN Raise("ValueError", param.name \o " must be <= " \o ToString(param.max_value.v))
    ELSE IF /\ ~IsNone(param.choices)
            /\ \A i \in 1..Len(param.choices.v) : StrOf(param.choices.v[i]) # StrOf(value)
    THEN Raise("ValueError", param.name \o " must be one of "
                   \o JoinNames([i \in 1..Len(param.choices.v) |-> StrOf(param.choices.v[i])]))
    ELSE Ok(value)

RECURSIVE SplitCommas(_)
\* [v for v in (part.strip() for part in value.split(",")) if v]
SplitCommas(t) ==
    LET commas == {i \in 1..Len(t) : Char(t, i) = ","}
        first == IF commas = {} THEN Len(t) + 1 ELSE SetMin(commas)
        part == Strip(SubSeq(t, 1, first - 1))
        head == IF part = "" THEN <<>> ELSE <<PyStr(part)>>
    IN  IF commas = {} THEN head ELSE head \o SplitCommas(SubSeq(t, first + 1, Len(t)))

\* self.transform(value) for the callables of a table author: lambda v: v * 2 and
\* lambda v: v[:2]
Transform(transform, value) ==
    CASE transform = "double" ->
            IF value.k = "int" THEN Ok(PyInt(2 * value.v))
            ELSE IF value.k = "str" THEN Ok(PyStr(value.v \o value.v))
            ELSE IF value.k \in {"list", "tuple"} THEN Ok([value EXCEPT !.v = @ \o @])
            ELSE Raise("TypeError", "unsupported operand type(s) for *: '"
                                    \o TypeName(value) \o "' and 'int'")
      [] transform = "head2" ->
            IF value.k = "str" THEN Ok(PyStr(SubSeq(value.v, 1, Min(2, Len(value.v)))))
            ELSE IF value.k \in {"list", "tuple"}
                 THEN Ok([value EXCEPT !.v = SubSeq(@, 1, Min(2, Len(@)))])
            ELSE Raise("TypeError", "'" \o TypeName(value) \o "' object is not subscriptable")
      [] OTHER -> Ok(value)
\* ParameterSpec.apply, `if self.transform: value = self.transform(value)`
Transformed(param, coerced) ==
    IF ~coerced.ok \/ param.transform = "none" THEN coerced
    ELSE Transform(param.transform, coerced.value)

\* The first failure among a sequence of results, or Ok of the sequence of values.
FirstFailure(results, wrap(_)) ==
    LET bad == {i \in 1..Len(results) : ~results[i].ok}
    IN  IF bad = {} THEN Ok(wrap([i \in 1..Len(results) |-> results[i].value]))
        ELSE results[SetMin(bad)]

\* ParameterSpec.apply, `if self.kind == "list"`: the value as a list
ListItems(param, value) ==
    IF value.k = "str" THEN Ok(PyList(SplitCommas(value.v)))
    ELSE IF value.k \in {"list", "tuple"} THEN Ok(PyList(value.v))
    ELSE Raise("ValueError", "Parameter '" \o param.name \o "' expects a list")
\* A faulty variant: only the first item is validated.
ValidateItems_FirstOnly(param, coerced) ==
    IF ~coerced.ok THEN coerced
    ELSE FirstFailure([i \in 1..Min(1, Len(coerced.value.v)) |->
                          _validate_scalar(param, coerced.value.v[i])],
                      LAMBDA first : coerced.value)

\* ... `for item in value: self._validate_scalar(item)`
ValidateItems(param, coerced) ==
    IF ~coerced.ok THEN coerced
    ELSE FirstFailure([i \in 1..Len(coerced.value.v) |->
                          _validate_scalar(param, coerced.value.v[i])], PyList)
\* ... `value = [self.coerce(item) for item in value]`
CoerceItems(param, items) ==
    IF ~items.ok THEN items
    ELSE ValidateItems(param,
             Transformed(param,
                 FirstFailure([i \in 1..Len(items.value.v) |->
                                  Coerce(param.coerce, items.value.v[i])], PyList)))
\* ... `self._validate_scalar(value)` of a coerced scalar
ValidateScalar(param, coerced) ==
    IF ~coerced.ok THEN coerced ELSE _validate_scalar(param, coerced.value)

\* A faulty variant: the value is validated as coerced, then transformed.
apply_ValidateFirst(param, value) ==
    IF param.kind = "list"
    THEN Transformed(param,
             IF ~ListItems(param, value).ok THEN ListItems(param, value)
             ELSE ValidateItems(param,
                      FirstFailure([i \in 1..Len(ListItems(param, value).value.v) |->
                                       Coerce(param.coerce, ListItems(param, value).value.v[i])],
                                   PyList)))
    ELSE Transformed(param, ValidateScalar(param, Coerce(param.coerce, value)))

\* ParameterSpec.apply for a present value: shape, coercion, transform, validation
apply(param, value) ==
    IF param.kind = "list"
    THEN CoerceItems(param, ListItems(param, value))
    ELSE ValidateScalar(param, Transformed(param, Coerce(param.coerce, value)))

\* One call apply makes: of self.coerce, of self.transform or of _validate_scalar,
\* with its argument and whether it returned.
CallOp(op, arg, ok) == [op |-> op, sql |-> "", params |-> arg, ok |-> ok, msg |-> ""]
\* The calls of f on the items in turn, up to the first that raises.
CallsUntilFailure(op, items, results) ==
    LET bad == {i \in 1..Len(items) : ~results[i].ok}
    IN  [i \in 1..(IF bad = {} THEN Len(items) ELSE SetMin(bad)) |->
            CallOp(op, items[i], results[i].ok)]
\* What a stage handles one by one: the items of a list, or the scalar.
ItemsOf(param, value) == IF param.kind = "list" THEN value.v ELSE <<value>>
ValidateCalls(param, transformed) ==
    IF ~transformed.ok THEN <<>>
    ELSE CallsUntilFailure("validate", ItemsOf(param, transformed.value),
             [i \in 1..Len(ItemsOf(param, transformed.value)) |->
                 _validate_scalar(param, ItemsOf(param, transformed.value)[i])])
TransformCalls(param, coerced) ==
    (IF coerced.ok /\ param.transform # "none"
     THEN <<CallOp("transform", coerced.value, Transformed(param, coerced).ok)>>
     ELSE <<>>)
    \o ValidateCalls(param, Transformed(param, coerced))
CoerceCalls(param, items) ==
    (IF param.coerce # "none"
     THEN CallsUntilFailure("coerce", items,
              [i \in 1..Len(items) |-> Coerce(param.coerce, items[i])])
     ELSE <<>>)
    \o TransformCalls(param,
           IF param.kind = "list"
           THEN FirstFailure([i \in 1..Len(items) |-> Coerce(param.coerce, items[i])], PyList)
           ELSE Coerce(param.coerce, items[1]))
\* ParameterSpec.apply: the calls it makes, in order
ApplyCalls(param, value) ==
    IF param.kind = "list"
    THEN IF ListItems(param, value).ok
         THEN CoerceCalls(param, ListItems(param, value).value.v)
         ELSE <<>>
    ELSE CoerceCalls(param, <<value>>)

\* The SQLToolSpecs registered on the table.
IntLiteralParam(name, default, lo, hi) ==
    [WithDefault(Param(name), PyInt(default))
        EXCEPT !.coerce = "int", !.min_value = PyInt(lo), !.max_value = PyInt(hi),
               !.as_literal = TRUE]

get_available_customers ==
    [name |-> "get_available_customers",
     sql |-> "SELECT customer, COUNT(*) AS total_records,"
             \o "       SUM(CASE WHEN any_anomaly = 1 THEN 1 ELSE 0 END) AS anomaly_records,"
             \o "       MIN(sales_date) AS first_date, MAX(sales_date) AS last_date"
             \o "  FROM {{MLA}}"
             \o " GROUP BY customer"
             \o " ORDER BY customer"
             \o " LIMIT :limit",
     params |-> <<IntLiteralParam("limit", 100, 1, 500)>>,
     enforce_limit |-> FALSE,
     max_rows |-> None,
     max_rows_param |-> None,
     prepare |-> "none"]

top_site_issues ==
    [name |-> "top_site_issues",
     sql |-> "SELECT NULLIF(TRIM(sitecode::VARCHAR), '') AS site, COUNT(*) AS issue_count "
             \o "FROM {{PCA}} "
             \o "WHERE providercode ILIKE :provider "
             \o "  AND sales_date >= CAST(TO_CHAR(CURRENT_DATE - :lookback_days, 'YYYYMMDD') AS INT) "
             \o "  AND NULLIF(TRIM(sitecode::VARCHAR), '') IS NOT NULL "
             \o "GROUP BY 1 "
             \o "ORDER BY issue_count DESC "
             \o "LIMIT :limit",
     params |-> <<[Param("provider") EXCEPT !.coerce = "strip_upper"],
                  IntLiteralParam("lookback_days", 3, 1, 30),
                  IntLiteralParam("limit", 20, 1, 200)>>,
     enforce_limit |-> FALSE,
     max_rows |-> None,
     max_rows_param |-> None,
     prepare |-> "none"]

\* The SQL of each dimension: base_dims, and dim_aliases resolved to them.
travel_expr == "TO_DATE(CAST(scheduledate AS VARCHAR), 'YYYYMMDD')"
BaseDimNames ==
    <<"obs_hour", "pos", "od", "origin", "destination", "cabin", "triptype", "los",
      "issue_label", "depart_period", "depart_date", "travel_dow">>
base_dims ==
    [d \in {BaseDimNames[i] : i \in 1..Len(BaseDimNames)} |->
        CASE d = "obs_hour" -> "{{EVENT_TS:obs_hour}}"
          [] d = "pos" -> "NULLIF(TRIM(pos::VARCHAR), '') AS pos"
          [] d = "od" -> "(NULLIF(TRIM(originairportcode::VARCHAR), '') || '-' || "
                         \o "NULLIF(TRIM(destinationairportcode::VARCHAR), '')) AS od"
          [] d = "origin" -> "NULLIF(TRIM(originairportcode::VARCHAR), '') AS origin"
          [] d = "destination" ->
                 "NULLIF(TRIM(destinationairportcode::VARCHAR), '') AS destination"
          [] d = "cabin" -> "NULLIF(TRIM(cabin::VARCHAR), '') AS cabin"
          [] d = "triptype" -> "NULLIF(TRIM(triptype::VARCHAR), '') AS triptype"
          [] d = "los" -> "los::VARCHAR AS los"
          [] d = "issue_label" -> "{{ISSUE_TYPE}} AS issue_label"
          [] d = "depart_period" -> "DATE_TRUNC('month', " \o travel_expr \o ") AS depart_period"
          [] d = "depart_date" -> travel_expr \o " AS depart_date"
          [] d = "travel_dow" -> "DATE_PART('dow', " \o travel_expr \o ") AS travel_dow"]
AliasNames ==
    <<"origin_code", "destination_code", "o_and_d", "o_d", "origin_destination",
      "issue_labels", "depart_periods", "departure_period", "depart_month",
      "depart_months", "travel_day_of_week", "depart_dow", "departure_dow">>
dim_aliases ==
    [a \in {AliasNames[i] : i \in 1..Len(AliasNames)} |->
        CASE a = "origin_code" -> "origin"
          [] a = "destination_code" -> "destination"
          [] a \in {"o_and_d", "o_d", "origin_destination"} -> "od"
          [] a = "issue_labels" -> "issue_label"
          [] a \in {"depart_periods", "departure_period", "depart_month", "depart_months"} ->
                 "depart_period"
          [] a \in {"travel_day_of_week", "depart_dow", "departure_dow"} -> "travel_dow"]
dimension_sql ==
    [d \in DOMAIN base_dims \cup DOMAIN dim_aliases |->
        IF d \in DOMAIN base_dims THEN base_dims[d] ELSE base_dims[dim_aliases[d]]]
dimension_choices ==
    PyTuple([i \in 1..(Len(BaseDimNames) + Len(AliasNames)) |->
                PyStr((BaseDimNames \o AliasNames)[i])])

\* _prepare_issue_scope for dims = list(values.get("dims") or ["obs_hour"])
ScopeTemplate(dims) ==
    "SELECT " \o JoinNames([i \in 1..Len(dims) |-> dimension_sql[dims[i].v]])
        \o ", COUNT(*) AS issue_count "
        \o "FROM {{PCA}} "
        \o "WHERE providercode ILIKE :provider "
        \o "  AND sitecode ILIKE :site "
        \o "  AND sales_date >= CAST(TO_CHAR(CURRENT_DATE - :lookback_days, 'YYYYMMDD') AS INT) "
        \o "GROUP BY " \o JoinNames([i \in 1..Len(dims) |-> ToString(i)]) \o " "
        \o "ORDER BY issue_count DESC "
        \o "LIMIT :limit"
_prepare_issue_scope(values) ==
    ScopeTemplate(IF "dims" \in DOMAIN values /\ Len(values["dims"].v) > 0
                  THEN values["dims"].v ELSE <<PyStr("obs_hour")>>)

issue_scope_combined ==
    [name |-> "issue_scope_combined",
     sql |-> "",
     params |-> <<[Param("provider") EXCEPT !.coerce = "strip_upper"],
                  [Param("site") EXCEPT !.coerce = "strip_upper"],
                  [WithDefault(Param("dims"),
                               PyTuple(<<PyStr("obs_hour"), PyStr("pos"), PyStr("od")>>))
                      EXCEPT !.kind = "list", !.choices = dimension_choices,
                             !.include_in_sql = FALSE],
                  IntLiteralParam("lookback_days", 3, 1, 30),
                  IntLiteralParam("limit", 50, 1, 500)>>,
     enforce_limit |-> FALSE,
     max_rows |-> None,
     max_rows_param |-> None,
     prepare |-> "_prepare_issue_scope"]

IsAlnum(c) == c \in LowerSet \cup UpperSet \cup DigitSet
\* ([A-Z0-9]{2,6}) anchored at i, ignoring case: the text of the group, "" if no match
CodeAt(s, i) ==
    IF i > Len(s) THEN ""
    ELSE IF RunEnd(s, i, IsAlnum) - i < 2 THEN ""
    ELSE SubSeq(s, i, Min(RunEnd(s, i, IsAlnum), i + 6) - 1)
\* PROVIDER_PATTERN and SITE_PATTERN anchored at i: word\s+([A-Z0-9]{2,6}), ignoring case
CodeAfterWordAt(s, word, i) ==
    IF /\ OccursAt(StrLower(s), word, i)
       /\ RunEnd(s, i + Len(word), IsSpace) > i + Len(word)
    THEN CodeAt(s, RunEnd(s, i + Len(word), IsSpace))
    ELSE ""
\* _infer_code(request, pattern): group 1 of the leftmost match in upper case, or None
_infer_code(request, word) ==
    LET hits == {i \in 1..Len(request) : CodeAfterWordAt(request, word, i) # ""}
    IN  IF hits = {} THEN None
        ELSE PyStr(StrUpper(CodeAfterWordAt(request, word, SetMin(hits))))
\* PROVIDER_SITE_PATTERN anchored at i: ([A-Z0-9]{2,6})\|([A-Z0-9]{2,6}), ignoring case
PairAt(s, i) ==
    IF /\ RunEnd(s, i, IsAlnum) - i \in 2..6
       /\ OccursAt(s, "|", RunEnd(s, i, IsAlnum))
       /\ CodeAt(s, RunEnd(s, i, IsAlnum) + 1) # ""
    THEN <<PyStr(StrUpper(SubSeq(s, i, RunEnd(s, i, IsAlnum) - 1))),
           PyStr(StrUpper(CodeAt(s, RunEnd(s, i, IsAlnum) + 1)))>>
    ELSE <<None, None>>
\* _infer_pair(request): the two groups of the leftmost match, or (None, None)
_infer_pair(request) ==
    LET hits == {i \in 1..Len(request) : PairAt(request, i) # <<None, None>>}
    IN  IF hits = {} THEN <<None, None>> ELSE PairAt(request, SetMin(hits))

\* _prepare_issue_scope_flex: the provider and the site it settles on
FlexProvider(values) ==
    IF values["provider"].v # "" THEN PyStr(StrUpper(values["provider"].v))
    ELSE PyOr(_infer_code(values["request"].v, "provider"),
              PyOr(_infer_pair(values["request"].v)[1], PyStr("")))
FlexSite(values) ==
    IF values["site"].v # "" THEN PyStr(StrUpper(values["site"].v))
    ELSE PyOr(_infer_code(values["request"].v, "site"),
              PyOr(_infer_pair(values["request"].v)[2], PyStr("")))
\* _prepare_issue_scope_flex(values): the template it returns with the values map as
\* it leaves it, or the ValueError it raises
_prepare_issue_scope_flex(values) ==
    IF FlexProvider(values).v = "" \/ FlexSite(values).v = ""
    THEN Raise("ValueError", "Provider and site codes are required "
                             \o "(e.g., 'provider QL2' and 'site QF').")
    ELSE Ok([template |-> _prepare_issue_scope(values),
             values |-> [values EXCEPT !["provider"] = FlexProvider(values),
                                       !["site"] = FlexSite(values)]])

issue_scope_combined_flex ==
    [name |-> "issue_scope_combined_flex",
     sql |-> "",
     params |-> <<[WithDefault(Param("provider"), PyStr("")) EXCEPT !.coerce = "strip_upper"],
                  [WithDefault(Param("site"), PyStr("")) EXCEPT !.coerce = "strip_upper"],
                  [WithDefault(Param("dims"),
                               PyTuple(<<PyStr("obs_hour"), PyStr("pos"), PyStr("od")>>))
                      EXCEPT !.kind = "list", !.choices = dimension_choices,
                             !.include_in_sql = FALSE],
                  IntLiteralParam("lookback_days", 3, 1, 30),
                  IntLiteralParam("limit", 50, 1, 500),
                  [WithDefault(Param("request"), PyStr(""))
                      EXCEPT !.coerce = "str", !.include_in_sql = FALSE]>>,
     enforce_limit |-> FALSE,
     max_rows |-> None,
     max_rows_param |-> None,
     prepare |-> "_prepare_issue_scope_flex"]

sql_tools ==
    <<get_available_customers, top_site_issues, issue_scope_combined,
      issue_scope_combined_flex>>

\* SQLToolSpecs a table author can declare with the fields the registered ones leave
\* at their defaults: a bound parameter beside a literal one; a parameter referenced
\* twice and an int bound parameter; a placeholder naming a parameter kept out of the
\* SQL and one naming no parameter; max_rows together with max_rows_param, governed
\* and not.
MaxRows == 2
Abc == PyTuple(<<PyStr("a"), PyStr("b"), PyStr("c")>>)
code_counts ==
    [name |-> "code_counts",
     sql |-> "SELECT {{OBS_HOUR}} AS issue, COUNT(*) AS cnt FROM {{MLA}} "
             \o "WHERE code ILIKE :code GROUP BY 1 LIMIT :limit",
     params |-> <<Param("code"), IntLiteralParam("limit", 20, 1, 500)>>,
     enforce_limit |-> FALSE, max_rows |-> None, max_rows_param |-> None,
     prepare |-> "none"]
code_pairs ==
    [name |-> "code_pairs",
     sql |-> "SELECT * FROM {{MLA}} WHERE a = :code AND n > :n AND b = :code "
             \o "AND m < :n LIMIT :limit",
     params |-> <<Param("code"), [Param("n") EXCEPT !.coerce = "int"],
                  IntLiteralParam("limit", 20, 1, 500)>>,
     enforce_limit |-> FALSE, max_rows |-> None, max_rows_param |-> None,
     prepare |-> "none"]
by_dims ==
    [name |-> "by_dims",
     sql |-> "SELECT :dims FROM {{MLA}} WHERE code = :code",
     params |-> <<Param("code"),
                  [WithDefault(Param("dims"), PyTuple(<<PyStr("a")>>))
                      EXCEPT !.kind = "list", !.choices = Abc, !.include_in_sql = FALSE]>>,
     enforce_limit |-> FALSE, max_rows |-> None, max_rows_param |-> None,
     prepare |-> "none"]
by_owner ==
    [name |-> "by_owner",
     sql |-> "SELECT * FROM {{MLA}} WHERE code = :code AND owner = :owner",
     params |-> <<Param("code")>>,
     enforce_limit |-> FALSE, max_rows |-> None, max_rows_param |-> None,
     prepare |-> "none"]
RowsParam == [WithDefault(Param("rows"), PyInt(MaxRows)) EXCEPT !.coerce = "int",
                                                                !.include_in_sql = FALSE]
capped ==
    [name |-> "capped",
     sql |-> "SELECT * FROM {{MLA}} WHERE code = :code",
     params |-> <<Param("code"), RowsParam>>,
     enforce_limit |-> TRUE, max_rows |-> PyInt(MaxRows), max_rows_param |-> PyStr("rows"),
     prepare |-> "none"]
capped_raw ==
    [name |-> "capped_raw",
     sql |-> "SELECT * FROM {{MLA}} WHERE code = :code",
     params |-> <<Param("code"), RowsParam>>,
     enforce_limit |-> FALSE, max_rows |-> PyInt(MaxRows), max_rows_param |-> PyStr("rows"),
     prepare |-> "none"]
authored_tools == <<code_counts, code_pairs, by_dims, by_owner, capped, capped_raw>>

AllTools == sql_tools \o authored_tools
ToolSpec(name) == AllTools[CHOOSE i \in 1..Len(AllTools) : AllTools[i].name = name]

\* kwargs, a dict in call order, as a sequence of <<name, value>>
KwNames(kwargs) == {kwargs[i][1] : i \in 1..Len(kwargs)}
KwValue(kwargs, name) == kwargs[CHOOSE i \in 1..Len(kwargs) : kwargs[i][1] = name][2]

\* The argument the i-th parameter is given: positional, named, or the default
\* (`default = list(default)` copies a list default, the value is the same).
Given(spec, args, kwargs, i) ==
    IF i <= Len(args) THEN args[i]
    ELSE IF spec.params[i].name \in KwNames(kwargs) THEN KwValue(kwargs, spec.params[i].name)
    ELSE spec.params[i].default

\* values[param.name] for the i-th parameter, or what the loops raise for it
BindOne(spec, args, kwargs, i) ==
    IF /\ i > Len(args)
       /\ spec.params[i].name \notin KwNames(kwargs)
       /\ ~spec.params[i].has_default
    THEN Raise("TypeError", "Missing required argument: " \o spec.params[i].name)
    ELSE apply(spec.params[i], Given(spec, args, kwargs, i))

\* The named arguments left once every parameter after the positional ones popped its own
LeftOver(spec, args, kwargs) ==
    SelectSeq([i \in 1..Len(kwargs) |-> kwargs[i][1]],
              LAMBDA k : k \notin {spec.params[i].name : i \in (Len(args) + 1)..Len(spec.params)})

\* A faulty variant: named arguments nobody asked for are ignored.
BoundValues_IgnoreLeftOver(spec, bound, left) ==
    LET bad == {i \in 1..Len(bound) : ~bound[i].ok}
    IN  IF bad # {} THEN bound[SetMin(bad)]
        ELSE Ok([name \in {spec.params[i].name : i \in 1..Len(bound)} |->
                    bound[CHOOSE i \in 1..Len(bound) : spec.params[i].name = name].value])

\* The values map, or the first exception of the loops, or the left-over arguments
BoundValues(spec, bound, left) ==
    LET bad == {i \in 1..Len(bound) : ~bound[i].ok}
    IN  IF bad # {} THEN bound[SetMin(bad)]
        ELSE IF Len(left) > 0
             THEN Raise("TypeError", "Unexpected argument(s): " \o JoinNames(left))
        ELSE Ok([name \in {spec.params[i].name : i \in 1..Len(bound)} |->
                    bound[CHOOSE i \in 1..Len(bound) : spec.params[i].name = name].value])

\* tool(*args, **kwargs) up to `values`: the loops binding the parameters in declared
\* order, then the check for left-over named arguments.  Ok carries the values map.
BindArguments(spec, args, kwargs) ==
    IF Len(args) > Len(spec.params)
    THEN Raise("TypeError", spec.name \o "() takes at most " \o ToString(Len(spec.params))
                            \o " positional arguments (" \o ToString(Len(args)) \o " given)")
    ELSE BoundValues(spec, [i \in 1..Len(spec.params) |-> BindOne(spec, args, kwargs, i)],
               LeftOver(spec, args, kwargs))

\* _PARAM_PATTERN anchored at i: :([a-zA-Z_][a-zA-Z0-9_]*)
ParamMatchAt(s, i) ==
    LET ne == RunEnd(s, i + 1, IsWordChar)
    IN  IF OccursAt(s, ":", i) /\ i + 1 <= Len(s) /\ IsAliasStart(Char(s, i + 1))
        THEN [ok |-> TRUE, name |-> SubSeq(s, i + 1, ne - 1), end |-> ne]
        ELSE [ok |-> FALSE, name |-> "", end |-> i]

Rendered(sql, params) == [ok |-> TRUE, sql |-> sql, params |-> params, msg |-> ""]
RenderError(msg) == [ok |-> FALSE, sql |-> "", params |-> <<>>, msg |-> msg]

RECURSIVE RenderFrom(_, _, _, _)
\* _PARAM_PATTERN.sub(replacer, sql_template) from i on: each match, left to right,
\* becomes str(value) for a literal parameter and %s plus a bound value otherwise;
\* a name outside spec_map raises ValueError.
RenderFrom(s, i, values, spec_map) ==
    LET hits == {j \in i..Len(s) : ParamMatchAt(s, j).ok}
    IN  IF hits = {} THEN Rendered(SubSeq(s, i, Len(s)), <<>>)
        ELSE LET j == SetMin(hits)
                 m == ParamMatchAt(s, j)
             IN  IF m.name \notin DOMAIN spec_map
                 THEN RenderError("Unknown SQL parameter :" \o m.name)
                 ELSE LET rest == RenderFrom(s, m.end, values, spec_map)
                          literal == spec_map[m.name].as_literal
                      IN  IF ~rest.ok THEN rest
                          ELSE Rendered(
                                   SubSeq(s, i, j - 1)
                                       \o (IF literal THEN StrOf(values[m.name]) ELSE "%s")
                                       \o rest.sql,
                                   (IF literal THEN <<>> ELSE <<values[m.name]>>) \o rest.params)

\* A faulty variant: the bound values come out last first.
_render_sql_with_params_Reversed(sql_template, values, spec_map) ==
    LET r == RenderFrom(sql_template, 1, values, spec_map)
    IN  [r EXCEPT !.params = [i \in 1..Len(r.params) |-> r.params[Len(r.params) + 1 - i]]]

\* SimpleTableExecutor._render_sql_with_params
_render_sql_with_params(sql_template, values, spec_map) ==
    RenderFrom(sql_template, 1, values, spec_map)

\* A faulty variant: parameters kept out of the SQL are substituted all the same.
SpecMap_All(spec) ==
    [name \in {spec.params[i].name : i \in 1..Len(spec.params)} |->
        spec.params[CHOOSE i \in 1..Len(spec.params) : spec.params[i].name = name]]

\* spec_map = {p.name: p for p in param_specs if p.include_in_sql}
SpecMap(spec) ==
    LET idx == {i \in 1..Len(spec.params) : spec.params[i].include_in_sql}
    IN  [name \in {spec.params[i].name : i \in idx} |->
            spec.params[CHOOSE i \in idx : spec.params[i].name = name]]

\* max_rows = int(values[spec.max_rows_param]) when the spec names a parameter
MaxRowsOf(spec, values) ==
    IF Truthy(spec.max_rows_param) /\ spec.max_rows_param.v \in DOMAIN values
    THEN Coerce("int", values[spec.max_rows_param.v])
    ELSE Ok(spec.max_rows)

\* The arguments of self.fetch(...), or what rendering or int() raised
FetchArguments(spec, rendered, max_rows) ==
    IF ~rendered.ok THEN Raise("ValueError", rendered.msg)
    ELSE IF ~max_rows.ok THEN max_rows
    ELSE Ok([sql |-> rendered.sql, params |-> PyTuple(rendered.params),
             max_rows |-> max_rows.value, enforce_limit |-> spec.enforce_limit])

\* sql_template: spec.sql, or what spec.prepare(values) returns
Template(spec, values) ==
    IF spec.prepare \in {"_prepare_issue_scope", "_prepare_issue_scope_flex"}
    THEN _prepare_issue_scope(values)
    ELSE spec.sql

\* `sql_template = spec.sql; if spec.prepare: sql_template = spec.prepare(values)`:
\* the template and the values map after the hook, or what the hook raises
Prepare(spec, values) ==
    IF spec.prepare = "_prepare_issue_scope_flex" THEN _prepare_issue_scope_flex(values)
    ELSE Ok([template |-> Template(spec, values), values |-> values])

\* The calls of spec.prepare: one, with the values map, once every argument is bound
PrepareCalls(spec, bound) ==
    IF bound.ok /\ spec.prepare # "none" THEN <<bound.value>> ELSE <<>>

\* A faulty variant: the statement is rendered from the values as they were bound,
\* what the hook wrote is lost.
RenderPrepared_BoundValues(spec, values, prepared) ==
    IF ~prepared.ok THEN prepared
    ELSE FetchArguments(spec,
             _render_sql_with_params(expand_macros(prepared.value.template),
                                     values, SpecMap(spec)),
             MaxRowsOf(spec, values))

\* The tool after the hook: expand_macros, _render_sql_with_params, max_rows
RenderPrepared(spec, values, prepared) ==
    IF ~prepared.ok THEN prepared
    ELSE FetchArguments(spec,
             _render_sql_with_params(expand_macros(prepared.value.template),
                                     prepared.value.values, SpecMap(spec)),
             MaxRowsOf(spec, prepared.value.values))

\* The tool from the bound values on: the hook, then the rendering
Render(spec, bound) ==
    IF ~bound.ok THEN [bound EXCEPT !.value = None]
    ELSE RenderPrepared(spec, bound.value, Prepare(spec, bound.value))

\* tool(*args, **kwargs) up to the call of fetch: an exception (ok FALSE) that leaves
\* the tool, or the arguments fetch is called with.
ToolBody(spec, args, kwargs) == Render(spec, BindArguments(spec, args, kwargs))
\* The calls of spec.prepare the tool makes.
ToolPrepares(spec, args, kwargs) == PrepareCalls(spec, BindArguments(spec, args, kwargs))

(***************************************************************************)
(* The inputs the hosting layer sends.                                     *)
(***************************************************************************)
QueryInputs ==
    {"SELECT * FROM {{TABLE}}",
     "DELETE FROM dummy",
     "SELECT * FROM t; DROP TABLE t",
     "SELECT created_at FROM t",
     "SELECT copy_count, updated_at FROM t",
     "",
     "  ",
     "EXPLAIN SELECT 1",
     "SELECT * FROM t LIMIT 0",
     "SELECT * FROM t LIMIT 2",
     "select a from t limit 9;",
     "SELECT * FROM t WHERE id NOT IN (SELECT id FROM u LIMIT 0)",
     "SELECT * FROM (SELECT a FROM t LIMIT 9) x LIMIT 2",
     " with x as (select 1) select * from x;; ",
     "SELECT 1; DELETE FROM t; DROP TABLE t",
     "SELECT {{FOO}} FROM t",
     "SELECT {{FOO}}, {{BAR:x}} FROM {{TABLE}}",
     "SELECT {{EVENT_TS:obs_hour}}, {{NOPE}} FROM {{PCA}}",
     "SELECT * FROM {{SRC}}"}

MaxRowsInputs == {None} \cup {PyInt(n) : n \in {-1, 0, 1, MaxLimit, MaxLimit + 2}}

\* The calls of generated tools: positional and named arguments.
SqlCalls ==
    {[tool |-> "get_available_customers", args |-> a, kwargs |-> k] :
        a \in {<<>>, <<PyInt(2)>>, <<PyStr("4")>>, <<PyStr("x")>>, <<PyInt(0)>>, <<None>>,
               <<PyInt(2), PyInt(3)>>},
        k \in {<<>>, <<<<"limit", PyInt(3)>>>>, <<<<"bogus", PyInt(1)>>>>}}
    \cup
    {[tool |-> "top_site_issues", args |-> a, kwargs |-> k] :
        a \in {<<>>, <<PyStr(" ql2 ")>>, <<PyStr("QL2"), PyInt(31)>>},
        k \in {<<>>, <<<<"limit", PyInt(5)>>>>}}
    \cup
    {[tool |-> "issue_scope_combined", args |-> a, kwargs |-> k] :
        a \in {<<>>, <<PyStr("ql2")>>, <<PyStr("ql2"), PyStr("qf")>>,
               <<PyStr("ql2"), PyStr("qf"), PyStr("obs_hour")>>,
               <<PyStr("ql2"), PyStr("qf"), PyStr("obs_hour, depart_month"), PyInt(7), PyInt(9)>>,
               <<PyStr("ql2"), PyStr("qf"), PyList(<<>>), PyInt(7), PyInt(9), PyInt(1)>>},
        k \in {<<>>, <<<<"site", PyStr("qf")>>>>, <<<<"dims", PyStr("obs_hour")>>>>,
               <<<<"dims", PyStr("nope")>>, <<"site", PyStr("aa")>>>>,
               <<<<"site", PyStr("aa")>>, <<"bogus", PyInt(1)>>, <<"provider", PyStr("x")>>>>}}
    \cup
    {[tool |-> "issue_scope_combined_flex", args |-> a, kwargs |-> k \o d] :
        a \in {<<>>, <<PyStr("aa")>>, <<PyStr("aa"), PyStr("bb")>>},
        k \in {<<>>, <<<<"request", PyStr("issues for provider ql2 at site  qf")>>>>,
               <<<<"request", PyStr("scope of QL2|QF today")>>>>,
               <<<<"request", PyStr("site q")>>>>, <<<<"request", PyInt(7)>>>>},
        d \in {<<>>, <<<<"dims", PyStr("obs_hour")>>>>, <<<<"dims", PyStr("nope")>>>>}}

\* ParameterSpecs a table author can declare: list-shaped with choices, with a
\* lower-casing coercion, with int items within bounds; scalars with bounds (coerced
\* by int, as the registered lookback_days is, or not coerced), with choices, and bare;
\* a scalar doubled after coercion, and a list cut to its first two items.
MaxId == 5
ParamInputs ==
    {[Param("dims") EXCEPT !.kind = "list", !.choices = Abc],
     [Param("tags") EXCEPT !.kind = "list", !.choices = Abc, !.coerce = "str_lower"],
     [Param("ids") EXCEPT !.kind = "list", !.coerce = "int",
                          !.min_value = PyInt(1), !.max_value = PyInt(MaxId)],
     [Param("names") EXCEPT !.kind = "list"],
     IntLiteralParam("lookback_days", 3, 1, 30),
     [Param("level") EXCEPT !.min_value = PyInt(1), !.max_value = PyInt(MaxId)],
     [Param("mode") EXCEPT !.choices = Abc],
     Param("code"),
     [Param("scale") EXCEPT !.coerce = "int", !.transform = "double",
                            !.min_value = PyInt(1), !.max_value = PyInt(MaxId)],
     [Param("top") EXCEPT !.kind = "list", !.coerce = "str_lower", !.transform = "head2",
                          !.choices = Abc]}

\* The values apply is given: None, numbers, texts, lists and tuples.
ValueInputs ==
    {None, PyInt(0), PyInt(3), PyInt(31), PyInt(MaxId + 1),
     PyStr("a,b"), PyStr("a,z"), PyStr(" a , ,b,"), PyStr("A,B"), PyStr(""), PyStr(" , "),
     PyStr("a"), PyStr("aa"), PyStr("3"), PyStr("0"), PyStr("31"),
     PyStr("1,2,9"), PyStr("1, x"), PyStr("b c,a"),
     PyList(<<PyStr("A"), PyStr("B")>>), PyList(<<PyStr("a")>>), PyList(<<>>),
     PyList(<<PyStr("a"), PyStr("z"), PyStr("b")>>),
     PyTuple(<<PyStr("c"), PyStr("a")>>), PyTuple(<<PyStr(" a")>>),
     PyList(<<PyInt(1), PyStr("2")>>), PyList(<<PyInt(2), PyInt(0)>>),
     PyList(<<PyStr("3"), None>>)}

\* The calls of the tools a table author declared.
AuthoredCalls ==
    {[tool |-> "code_counts", args |-> a, kwargs |-> k] :
        a \in {<<>>, <<PyStr("aa")>>, <<PyStr("aa"), PyInt(5)>>, <<PyInt(7)>>, <<None>>},
        k \in {<<>>, <<<<"limit", PyStr("7")>>>>}}
    \cup
    {[tool |-> "code_pairs", args |-> a, kwargs |-> <<>>] :
        a \in {<<PyStr("x"), PyInt(3)>>, <<PyStr("y"), PyStr("4"), PyInt(2)>>,
               <<PyStr(""), PyList(<<>>)>>}}
    \cup
    {[tool |-> t, args |-> a, kwargs |-> <<>>] :
        t \in {"by_dims", "by_owner"},
        a \in {<<PyStr("aa")>>, <<PyStr("aa"), PyStr("b,c")>>}}
    \cup
    {[tool |-> t, args |-> <<PyStr("aa")>>, kwargs |-> k] :
        t \in {"capped", "capped_raw"},
        k \in {<<>>} \cup {<<<<"rows", r>>>> :
                 r \in {PyInt(0), PyInt(1), PyInt(MaxRows + 1), PyStr("4"), PyInt(MaxAvail),
                        PyStr("many")}}}

\* The calls of the server's query_table: the query and the limit (1000 when omitted).
ReaderDefaultLimit == 1000
ReaderQueries ==
    {"SELECT * FROM t",
     "select * from t;",
     "  SELECT a FROM t ;",
     "SELECT * FROM t LIMIT 5",
     "select * from t limit 5",
     "SELECT * FROM t LIMIT 1",
     "SELECT rate_limit FROM t",
     "SELECT * FROM t WHERE id IN (SELECT id FROM u LIMIT 1)",
     "SELECT 1; DROP TABLE t",
     "DELETE FROM t",
     "WITH x AS (SELECT 1) SELECT * FROM x",
     ""}
ReaderLimits == {1, 2, ReaderDefaultLimit}

\* The calls of two requests in flight at once: one client uses the query tool (a
\* statement that runs, one that is refused), the other a generated tool with a
\* synthesis hook and a list-valued default (a call that runs, one that fails to bind).
InterleavedCalls(p) ==
    IF p = "p1"
    THEN {[tool |-> "query_table", sql_query |-> q, max_rows |-> None,
           args |-> <<>>, kwargs |-> <<>>] :
             q \in {"SELECT * FROM t LIMIT 1", "DELETE FROM dummy"}}
    ELSE {[tool |-> "issue_scope_combined", sql_query |-> "", max_rows |-> None,
           args |-> a, kwargs |-> <<>>] :
             a \in {<<PyStr("ql2"), PyStr("qf"), PyStr("obs_hour"), PyInt(3), PyInt(1)>>,
                    <<PyStr("ql2")>>}}

\* make_schema_tool: schema_sql and params for the definition (database_name None)
schema_sql ==
    "SELECT\n  column_name,\n  data_type,\n  character_maximum_length,\n  is_nullable\n"
    \o "FROM svv_columns\nWHERE table_schema = %s\n  AND table_name = %s\n"
    \o "ORDER BY ordinal_position"
schema_params == PyTuple(<<PyStr(schema_name), PyStr(table_name)>>)

(***************************************************************************)
(* The hand-written query tool of market_anomalies_v3 (tools.py).          *)
(***************************************************************************)
\* "The query is automatically limited to 100 rows maximum"
AnomaliesMaxRows == 100

\* forbidden_keywords, a list: the first one found is the one reported
forbidden_keywords == <<"DELETE", "UPDATE", "INSERT", "DROP", "TRUNCATE", "ALTER", "CREATE">>

\* re.search(r'LIMIT\s+(\d+)', query_upper): the digits of the leftmost match, "" if none
AnomaliesLimitAt(s, i) ==
    LET ws == i + 5
        ds == RunEnd(s, ws, IsSpace)
        de == RunEnd(s, ds, IsDigit)
    IN  IF OccursAt(s, "LIMIT", i) /\ ds > ws /\ de > ds THEN SubSeq(s, ds, de - 1) ELSE ""
AnomaliesLimitSearch(s) ==
    LET hits == {i \in 1..Len(s) : AnomaliesLimitAt(s, i) # ""}
    IN  IF hits = {} THEN "" ELSE AnomaliesLimitAt(s, SetMin(hits))

\* query_anomalies after the safety checks: the statement and max_rows handed to
\* _execute_query
AnomaliesLimited(sql_query, query_upper) ==
    IF ~Contains(query_upper, "LIMIT")
    THEN Prepared(RStripSemicolons(sql_query) \o " LIMIT " \o ToString(AnomaliesMaxRows),
                  PyInt(AnomaliesMaxRows))
    ELSE LET digits == AnomaliesLimitSearch(query_upper)
         IN  Prepared(sql_query,
                      PyInt(Min(IF digits # "" THEN ParseInt(digits) ELSE AnomaliesMaxRows,
                                AnomaliesMaxRows)))

\* query_anomalies up to the call of _execute_query: the error it returns, or the
\* arguments of the call
AnomaliesChecked(sql_query, query_upper) ==
    LET hits == {i \in 1..Len(forbidden_keywords) : Contains(query_upper, forbidden_keywords[i])}
    IN  IF ~StartsWith(query_upper, "SELECT") THEN Rejected("Only SELECT queries are allowed")
        ELSE IF hits # {}
             THEN Rejected("Forbidden keyword: " \o forbidden_keywords[SetMin(hits)])
        ELSE IF ~Contains(query_upper, "MARKET_LEVEL_ANOMALIES_V3")
             THEN Rejected("Query must reference analytics.market_level_anomalies_v3 table")
        ELSE AnomaliesLimited(sql_query, query_upper)
query_anomalies(sql_query) == AnomaliesChecked(sql_query, Strip(StrUpper(sql_query)))

\* _execute_query: the retry test of its except clause
AnomaliesShouldRetry(attempts, msg) ==
    (Contains(msg, "25P02") \/ Contains(msg, "current transaction is aborted")) /\ attempts = 0

RECURSIVE BytesRepr(_)
\* The inside of repr(bytes): printable ASCII as it is, the rest as \xhh
BytesRepr(bytes) ==
    IF Len(bytes) = 0 THEN ""
    ELSE (IF Head(bytes) \in 32..126
          THEN Ascii(Head(bytes))
          ELSE "\\x" \o SubSeq("0123456789abcdef", (Head(bytes) \div 16) + 1,
                                                    (Head(bytes) \div 16) + 1)
                      \o SubSeq("0123456789abcdef", (Head(bytes) % 16) + 1,
                                                    (Head(bytes) % 16) + 1))
         \o BytesRepr(Tail(bytes))
\* _execute_query, one cell: anything but None, str, int, float, bool is str(value);
\* str(datetime) separates date and time by a space
AnomaliesCell(value) ==
    IF value.k \in {"None", "str", "int", "float", "bool"} THEN value
    ELSE IF value.k = "bytes" THEN PyStr("b'" \o BytesRepr(value.v) \o "'")
    ELSE IF value.k = "date" THEN PyStr(isoformat(value))
    ELSE IF value.k = "datetime"
         THEN PyStr(isoformat([value EXCEPT !.k = "date"]) \o " "
                    \o SubSeq(isoformat(value), 12, 19))
    ELSE PyStr(StrOfCell(value))

\* The payload _execute_query returns for `fetched` rows
AnomaliesEnvelope(max_rows, fetched) ==
    [columns |-> Columns,
     rows |-> [i \in 1..fetched |->
                  [c \in {Columns[j] : j \in 1..Len(Columns)} |->
                      AnomaliesCell(RawRow(i)[CHOOSE j \in 1..Len(Columns) : Columns[j] = c])]],
     row_count |-> fetched,
     truncated |-> fetched = max_rows]

\* cursor.fetchmany(max_rows) on a result set of n rows; a size of 0 is left to the driver
AnomaliesFetched(max_rows, n) == IF max_rows > 0 THEN {Min(n, max_rows)} ELSE 0..n

\* The calls of query_anomalies
AnomaliesQueries ==
    {"SELECT * FROM market_level_anomalies_v3",
     "select * from market_level_anomalies_v3 limit 2;",
     "SELECT * FROM market_level_anomalies_v3 LIMIT 0",
     "SELECT * FROM market_level_anomalies_v3 WHERE rate_limit > 1;",
     "SELECT * FROM t",
     "WITH x AS (SELECT 1) SELECT * FROM market_level_anomalies_v3",
     "SELECT updated_at FROM market_level_anomalies_v3"}

(***************************************************************************)
(* State: one frame per invocation in flight.                              *)
(***************************************************************************)
Procs == {"p1", "p2"}
\* The invocations the sequential host issues.
Sequential == {"p1"}

VARIABLES
    pc,        \* where each invocation stands: idle, connect, attempt, done
    call,      \* the tool called and its arguments
    frame,     \* the locals of fetch and _run_select
    log,       \* the operations the invocation performed on the connection
    result     \* what the invocation handed to its caller

vars == <<pc, call, frame, log, result>>

\* self is the ParameterSpec when the call is one of its method apply.
\* prepared lists the value maps spec.prepare was called with.
NoCall == [tool |-> "", sql_query |-> "", max_rows |-> None, args |-> <<>>, kwargs |-> <<>>,
           self |-> None, prepared |-> <<>>]
\* fetch_sql, max_rows, enforce_limit: the arguments of fetch; sql, params, limit: the
\* arguments of _run_select; attempts: its retry counter.
NoFrame == [fetch_sql |-> "", max_rows |-> None, enforce_limit |-> FALSE,
            sql |-> "", params |-> None, limit |-> None, attempts |-> 0]
NoResult == [kind |-> "none"]
Returned(env) == [kind |-> "return", env |-> env]
Raised(type, msg) == [kind |-> "raise", type |-> type, msg |-> msg]

\* One operation on the connection: what was called, with what, and whether it
\* succeeded (msg is the text of the exception when it did not).
ConnOp(op, ok) == [op |-> op, sql |-> "", params |-> None, ok |-> ok, msg |-> ""]
ExecOp(sql, params, msg) ==
    [op |-> "execute", sql |-> sql, params |-> params, ok |-> msg = "", msg |-> msg]
RollbackStmt == "ROLLBACK;"
DefensiveRollback(ok) == ExecOp(RollbackStmt, None, IF ok THEN "" ELSE MsgAborted)
FetchOp(limit) == [op |-> IF Truthy(limit) THEN "fetchmany" ELSE "fetchall",
                   sql |-> "", params |-> limit, ok |-> TRUE, msg |-> ""]

Init ==
    /\ pc = [p \in Procs |-> "idle"]
    /\ call = [p \in Procs |-> NoCall]
    /\ frame = [p \in Procs |-> NoFrame]
    /\ log = [p \in Procs |-> <<>>]
    /\ result = [p \in Procs |-> NoResult]

\* A faulty variant: the connection is requested before the statement is validated.
FetchStart_ConnectFirst(p, sql, params, max_rows, enforce_limit) ==
    \E r \in _prepare_query(sql, max_rows, enforce_limit) :
        IF r.ok
        THEN /\ pc' = [pc EXCEPT ![p] = "connect"]
             /\ frame' = [frame EXCEPT ![p] =
                    [fetch_sql |-> sql, max_rows |-> max_rows, enforce_limit |-> enforce_limit,
                     sql |-> r.sql, params |-> params, limit |-> r.limit, attempts |-> 0]]
             /\ UNCHANGED <<log, result>>
        ELSE /\ pc' = [pc EXCEPT ![p] = "done"]
             /\ frame' = [frame EXCEPT ![p] =
                    [NoFrame EXCEPT !.fetch_sql = sql, !.max_rows = max_rows,
                                    !.enforce_limit = enforce_limit]]
             /\ result' = [result EXCEPT ![p] = Returned(ErrorEnvelope(r.error))]
             /\ log' = [log EXCEPT ![p] = Append(@, ConnOp("get_connection", TRUE))]

\* fetch up to the call of _run_select: _prepare_query, and its ValueError turned
\* into the error envelope.
FetchStart(p, sql, params, max_rows, enforce_limit) ==
    \E r \in _prepare_query(sql, max_rows, enforce_limit) :
        IF r.ok
        THEN /\ pc' = [pc EXCEPT ![p] = "connect"]
             /\ frame' = [frame EXCEPT ![p] =
                    [fetch_sql |-> sql, max_rows |-> max_rows, enforce_limit |-> enforce_limit,
                     sql |-> r.sql, params |-> params, limit |-> r.limit, attempts |-> 0]]
             /\ UNCHANGED <<log, result>>
        ELSE /\ pc' = [pc EXCEPT ![p] = "done"]
             /\ frame' = [frame EXCEPT ![p] =
                    [NoFrame EXCEPT !.fetch_sql = sql, !.max_rows = max_rows,
                                    !.enforce_limit = enforce_limit]]
             /\ result' = [result EXCEPT ![p] = Returned(ErrorEnvelope(r.error))]
             /\ UNCHANGED log

\* query_tool(sql_query, max_rows): run_query expands the macros and calls fetch
QueryTool(p) ==
    /\ pc[p] = "idle"
    /\ \E sql_query \in QueryInputs, max_rows \in MaxRowsInputs :
        /\ call' = [call EXCEPT ![p] =
               [NoCall EXCEPT !.tool = "query_table", !.sql_query = sql_query,
                              !.max_rows = max_rows]]
        /\ FetchStart(p, expand_macros(sql_query), None, max_rows, TRUE)

\* get_schema(): fetch(schema_sql, params=params, enforce_limit=False)
SchemaTool(p) ==
    /\ pc[p] = "idle"
    /\ call' = [call EXCEPT ![p] = [NoCall EXCEPT !.tool = "get_table_schema"]]
    /\ FetchStart(p, schema_sql, schema_params, None, FALSE)

\* The tool from `values` on: fetch is called with what the body computed, or the
\* exception the body raised leaves the tool.
ToolOutcome(p, body) ==
    IF body.ok
    THEN FetchStart(p, body.value.sql, body.value.params, body.value.max_rows,
                    body.value.enforce_limit)
    ELSE /\ pc' = [pc EXCEPT ![p] = "done"]
         /\ result' = [result EXCEPT ![p] = Raised(body.type, body.msg)]
         /\ UNCHANGED <<frame, log>>

\* A tool made by make_sql_tool: nothing in it catches what the binding, the
\* rendering or int() raise; fetch is reached only when none did.
SqlTool(p) ==
    /\ pc[p] = "idle"
    /\ \E c \in SqlCalls :
        /\ call' = [call EXCEPT ![p] =
               [NoCall EXCEPT !.tool = c.tool, !.args = c.args, !.kwargs = c.kwargs,
                              !.prepared = ToolPrepares(ToolSpec(c.tool), c.args, c.kwargs)]]
        /\ ToolOutcome(p, ToolBody(ToolSpec(c.tool), c.args, c.kwargs))

\* ParameterSpec.apply called on its own: the normalized value is returned, or the
\* exception of the shape check, the coercion or the validation is raised.
ApplyResult(p, applied) ==
    /\ pc' = [pc EXCEPT ![p] = "done"]
    /\ result' = [result EXCEPT ![p] =
           IF applied.ok THEN Returned(applied.value) ELSE Raised(applied.type, applied.msg)]
    /\ UNCHANGED frame

ApplyParameter(p) ==
    /\ pc[p] = "idle"
    /\ \E param \in ParamInputs, value \in ValueInputs :
        /\ call' = [call EXCEPT ![p] =
               [NoCall EXCEPT !.tool = "apply", !.self = param, !.args = <<value>>]]
        /\ log' = [log EXCEPT ![p] = ApplyCalls(param, value)]
        /\ ApplyResult(p, apply(param, value))

\* A tool made by make_sql_tool from a specification a table author declared.
AuthoredTool(p) ==
    /\ pc[p] = "idle"
    /\ \E c \in AuthoredCalls :
        /\ call' = [call EXCEPT ![p] =
               [NoCall EXCEPT !.tool = c.tool, !.args = c.args, !.kwargs = c.kwargs,
                              !.prepared = ToolPrepares(ToolSpec(c.tool), c.args, c.kwargs)]]
        /\ ToolOutcome(p, ToolBody(ToolSpec(c.tool), c.args, c.kwargs))

\* AnalyticsReader.query_table up to the cursor: the statement it will execute, or
\* the ValueError for a text that does not start with SELECT.
ReaderStatement(query, limit) ==
    IF ~StartsWith(StrUpper(Strip(query)), "SELECT")
    THEN Raise("ValueError", "Only SELECT queries are allowed")
    ELSE IF ~Contains(StrUpper(query), "LIMIT")
    THEN Ok(PyStr(RStripSemicolons(query) \o " LIMIT " \o ToString(limit) \o ";"))
    ELSE Ok(PyStr(query))

\* ... and from the cursor on: get_connection, execute, fetchall, the DataFrame of
\* all the records; what the driver raises leaves query_table.
ReaderRun(p, statement) ==
    IF ~statement.ok
    THEN /\ result' = [result EXCEPT ![p] = Raised(statement.type, statement.msg)]
         /\ UNCHANGED <<frame, log>>
    ELSE /\ frame' = [frame EXCEPT ![p] = [NoFrame EXCEPT !.sql = statement.value.v]]
         /\ \/ /\ log' = [log EXCEPT ![p] = <<ConnOp("get_connection", FALSE)>>]
               /\ result' = [result EXCEPT ![p] = Raised("Exception", MsgConnect)]
            \/ \E msg \in ExecErrors :
                  /\ log' = [log EXCEPT ![p] =
                         <<ConnOp("get_connection", TRUE), ConnOp("cursor", TRUE),
                           ExecOp(statement.value.v, None, msg)>>]
                  /\ result' = [result EXCEPT ![p] = Raised("Exception", msg)]
            \/ \E n \in ResultSizes(statement.value.v) :
                  /\ log' = [log EXCEPT ![p] =
                         <<ConnOp("get_connection", TRUE), ConnOp("cursor", TRUE),
                           ExecOp(statement.value.v, None, ""), FetchOp(None)>>]
                  /\ result' = [result EXCEPT ![p] =
                         Returned([records |-> [i \in 1..n |-> RawRow(i)]])]

\* The server's tool query_table(query, limit): reader.query_table(query, limit),
\* then df.to_json of what it returned.
ReaderQueryTable(p) ==
    /\ pc[p] = "idle"
    /\ \E query \in ReaderQueries, limit \in ReaderLimits :
        /\ call' = [call EXCEPT ![p] =
               [NoCall EXCEPT !.tool = "server.query_table", !.sql_query = query,
                              !.max_rows = PyInt(limit)]]
        /\ ReaderRun(p, ReaderStatement(query, limit))
    /\ pc' = [pc EXCEPT ![p] = "done"]

\* A tool called while another invocation may be in flight: the query tool or a
\* generated tool, as above.
InterleavedTool(p) ==
    /\ pc[p] = "idle"
    /\ \E c \in InterleavedCalls(p) :
        IF c.tool = "query_table"
        THEN /\ call' = [call EXCEPT ![p] =
                    [NoCall EXCEPT !.tool = c.tool, !.sql_query = c.sql_query,
                                   !.max_rows = c.max_rows]]
             /\ FetchStart(p, expand_macros(c.sql_query), None, c.max_rows, TRUE)
        ELSE /\ call' = [call EXCEPT ![p] =
                    [NoCall EXCEPT !.tool = c.tool, !.args = c.args, !.kwargs = c.kwargs,
                                   !.prepared = ToolPrepares(ToolSpec(c.tool), c.args, c.kwargs)]]
             /\ ToolOutcome(p, ToolBody(ToolSpec(c.tool), c.args, c.kwargs))

\* A faulty variant: a failure of the autocommit toggle ends the invocation.
Connect_AutocommitFatal(p) ==
    /\ pc[p] = "connect"
    /\ \/ /\ log' = [log EXCEPT ![p] = Append(@, ConnOp("get_connection", FALSE))]
          /\ result' = [result EXCEPT ![p] = Returned(ErrorEnvelope(MsgConnect))]
          /\ pc' = [pc EXCEPT ![p] = "done"]
       \/ /\ log' = [log EXCEPT ![p] =
                 @ \o <<ConnOp("get_connection", TRUE), ConnOp("set_autocommit", FALSE)>>]
          /\ result' = [result EXCEPT ![p] = Returned(ErrorEnvelope(MsgConnect))]
          /\ pc' = [pc EXCEPT ![p] = "done"]
       \/ /\ \E autocommit \in {"not False", "set"} :
                log' = [log EXCEPT ![p] =
                    IF autocommit = "not False"
                    THEN Append(@, ConnOp("get_connection", TRUE))
                    ELSE @ \o <<ConnOp("get_connection", TRUE),
                                ConnOp("set_autocommit", TRUE)>>]
          /\ pc' = [pc EXCEPT ![p] = "attempt"]
          /\ UNCHANGED result
    /\ UNCHANGED <<call, frame>>

\* _run_select before the loop: get_connector, get_connection, the autocommit toggle
\* (its failure is swallowed).  A failure to connect reaches fetch's except clause.
Connect(p) ==
    /\ pc[p] = "connect"
    /\ \/ /\ log' = [log EXCEPT ![p] = Append(@, ConnOp("get_connection", FALSE))]
          /\ result' = [result EXCEPT ![p] = Returned(ErrorEnvelope(MsgConnect))]
          /\ pc' = [pc EXCEPT ![p] = "done"]
       \/ /\ \E autocommit \in {"not False", "set", "raises"} :
                log' = [log EXCEPT ![p] =
                    IF autocommit = "not False"
                    THEN Append(@, ConnOp("get_connection", TRUE))
                    ELSE @ \o <<ConnOp("get_connection", TRUE),
                                ConnOp("set_autocommit", autocommit = "set")>>]
          /\ pc' = [pc EXCEPT ![p] = "attempt"]
          /\ UNCHANGED result
    /\ UNCHANGED <<call, frame>>

\* A faulty variant: the retry counter is one for all the invocations in flight.
SharedAttempts == IF \E q \in Procs : frame[q].attempts > 0 THEN 1 ELSE 0
Attempt_SharedRetry(p) ==
    /\ pc[p] = "attempt"
    /\ IF frame[p].attempts < 2
       THEN \E rollback_ok \in BOOLEAN :
            LET f == frame[p]
                before == log[p] \o <<ConnOp("cursor", TRUE), DefensiveRollback(rollback_ok)>>
            IN  \/ \E msg \in ExecErrors :
                      IF ShouldRetry(SharedAttempts, msg)
                      THEN /\ \E conn_rollback_ok \in BOOLEAN :
                                log' = [log EXCEPT ![p] =
                                    before \o <<ExecOp(f.sql, f.params, msg),
                                                ConnOp("rollback", conn_rollback_ok)>>]
                           /\ frame' = [frame EXCEPT ![p].attempts = @ + 1]
                           /\ UNCHANGED <<pc, result>>
                      ELSE /\ log' = [log EXCEPT ![p] =
                                  before \o <<ExecOp(f.sql, f.params, msg)>>]
                           /\ result' = [result EXCEPT ![p] = Returned(ErrorEnvelope(msg))]
                           /\ pc' = [pc EXCEPT ![p] = "done"]
                           /\ UNCHANGED frame
                \/ \E n \in ResultSizes(f.sql) : \E fetched \in FetchedCounts(f.limit, n) :
                      /\ log' = [log EXCEPT ![p] =
                             before \o <<ExecOp(f.sql, f.params, ""), FetchOp(f.limit)>>]
                      /\ result' = [result EXCEPT ![p] =
                             Returned(SuccessEnvelope(f.sql, f.limit, fetched))]
                      /\ pc' = [pc EXCEPT ![p] = "done"]
                      /\ UNCHANGED frame
       ELSE /\ result' = [result EXCEPT ![p] =
                   Returned(ErrorEnvelope("Failed to execute query after retry"))]
            /\ pc' = [pc EXCEPT ![p] = "done"]
            /\ UNCHANGED <<frame, log>>
    /\ UNCHANGED call

\* One pass of the while loop of _run_select: the defensive ROLLBACK (its failure
\* is swallowed), the statement, then either the payload or the except clause; and,
\* once the loop condition fails, the RuntimeError after the loop.  Every exception
\* that leaves _run_select is turned into the error envelope by fetch.
Attempt(p) ==
    /\ pc[p] = "attempt"
    /\ IF frame[p].attempts < 2
       THEN \E rollback_ok \in BOOLEAN :
            LET f == frame[p]
                before == log[p] \o <<ConnOp("cursor", TRUE), DefensiveRollback(rollback_ok)>>
            IN  \/ \E msg \in ExecErrors :
                      IF ShouldRetry(f.attempts, msg)
                      THEN /\ \E conn_rollback_ok \in BOOLEAN :
                                log' = [log EXCEPT ![p] =
                                    before \o <<ExecOp(f.sql, f.params, msg),
                                                ConnOp("rollback", conn_rollback_ok)>>]
                           /\ frame' = [frame EXCEPT ![p].attempts = @ + 1]
                           /\ UNCHANGED <<pc, result>>
                      ELSE /\ log' = [log EXCEPT ![p] =
                                  before \o <<ExecOp(f.sql, f.params, msg)>>]
                           /\ result' = [result EXCEPT ![p] = Returned(ErrorEnvelope(msg))]
                           /\ pc' = [pc EXCEPT ![p] = "done"]
                           /\ UNCHANGED frame
                \/ \E n \in ResultSizes(f.sql) : \E fetched \in FetchedCounts(f.limit, n) :
                      /\ log' = [log EXCEPT ![p] =
                             before \o <<ExecOp(f.sql, f.params, ""), FetchOp(f.limit)>>]
                      /\ result' = [result EXCEPT ![p] =
                             Returned(SuccessEnvelope(f.sql, f.limit, fetched))]
                      /\ pc' = [pc EXCEPT ![p] = "done"]
                      /\ UNCHANGED frame
       ELSE /\ result' = [result EXCEPT ![p] =
                   Returned(ErrorEnvelope("Failed to execute query after retry"))]
            /\ pc' = [pc EXCEPT ![p] = "done"]
            /\ UNCHANGED <<frame, log>>
    /\ UNCHANGED call

\* query_anomalies(sql_query): the safety checks and the LIMIT, then _execute_query
QueryAnomalies(p) ==
    /\ pc[p] = "idle"
    /\ \E sql_query \in AnomaliesQueries :
        /\ call' = [call EXCEPT ![p] =
               [NoCall EXCEPT !.tool = "query_anomalies", !.sql_query = sql_query]]
        /\ IF query_anomalies(sql_query).ok
           THEN /\ pc' = [pc EXCEPT ![p] = "execute_query"]
                /\ frame' = [frame EXCEPT ![p] =
                       [NoFrame EXCEPT !.fetch_sql = sql_query,
                                       !.sql = query_anomalies(sql_query).sql,
                                       !.limit = query_anomalies(sql_query).limit]]
                /\ UNCHANGED <<log, result>>
           ELSE /\ pc' = [pc EXCEPT ![p] = "done"]
                /\ result' = [result EXCEPT ![p] =
                       Returned(ErrorEnvelope(query_anomalies(sql_query).error))]
                /\ UNCHANGED <<frame, log>>

\* _execute_query before the loop: get_connection and the autocommit toggle (its
\* failure is swallowed).  A failure to connect reaches the except clause of
\* query_anomalies.
ExecuteQueryConnect(p) ==
    /\ pc[p] = "execute_query"
    /\ \/ /\ log' = [log EXCEPT ![p] = Append(@, ConnOp("get_connection", FALSE))]
          /\ result' = [result EXCEPT ![p] = Returned(ErrorEnvelope(MsgConnect))]
          /\ pc' = [pc EXCEPT ![p] = "done"]
       \/ /\ \E autocommit \in {"not False", "set", "raises"} :
                log' = [log EXCEPT ![p] =
                    IF autocommit = "not False"
                    THEN Append(@, ConnOp("get_connection", TRUE))
                    ELSE @ \o <<ConnOp("get_connection", TRUE),
                                ConnOp("set_autocommit", autocommit = "set")>>]
          /\ pc' = [pc EXCEPT ![p] = "execute_attempt"]
          /\ UNCHANGED result
    /\ UNCHANGED <<call, frame>>

\* One pass of the while loop of _execute_query: the defensive ROLLBACK (its failure
\* is swallowed), the statement, then the payload or the except clause; and the
\* return after the loop.
ExecuteQueryAttempt(p) ==
    /\ pc[p] = "execute_attempt"
    /\ IF frame[p].attempts < 2
       THEN \E rollback_ok \in BOOLEAN :
            LET f == frame[p]
                before == log[p] \o <<ConnOp("cursor", TRUE), DefensiveRollback(rollback_ok)>>
            IN  \/ \E msg \in ExecErrors :
                      IF AnomaliesShouldRetry(f.attempts, msg)
                      THEN /\ \E conn_rollback_ok \in BOOLEAN :
                                log' = [log EXCEPT ![p] =
                                    before \o <<ExecOp(f.sql, None, msg),
                                                ConnOp("rollback", conn_rollback_ok)>>]
                           /\ frame' = [frame EXCEPT ![p].attempts = @ + 1]
                           /\ UNCHANGED <<pc, result>>
                      ELSE /\ log' = [log EXCEPT ![p] = before \o <<ExecOp(f.sql, None, msg)>>]
                           /\ result' = [result EXCEPT ![p] = Returned(ErrorEnvelope(msg))]
                           /\ pc' = [pc EXCEPT ![p] = "done"]
                           /\ UNCHANGED frame
                \/ \E n \in ResultSizes(f.sql) : \E fetched \in AnomaliesFetched(f.limit.v, n) :
                      /\ log' = [log EXCEPT ![p] =
                             before \o <<ExecOp(f.sql, None, ""),
                                         [op |-> "fetchmany", sql |-> "", params |-> f.limit,
                                          ok |-> TRUE, msg |-> ""]>>]
                      /\ result' = [result EXCEPT ![p] =
                             Returned(AnomaliesEnvelope(f.limit.v, fetched))]
                      /\ pc' = [pc EXCEPT ![p] = "done"]
                      /\ UNCHANGED frame
       ELSE /\ result' = [result EXCEPT ![p] = Returned(ErrorEnvelope(
                   "Query failed after retry due to aborted transaction state"))]
            /\ pc' = [pc EXCEPT ![p] = "done"]
            /\ UNCHANGED <<frame, log>>
    /\ UNCHANGED call

\* The caller takes the result; the frame is gone.
Return(p) ==
    /\ pc[p] = "done"
    /\ pc' = [pc EXCEPT ![p] = "idle"]
    /\ call' = [call EXCEPT ![p] = NoCall]
    /\ frame' = [frame EXCEPT ![p] = NoFrame]
    /\ log' = [log EXCEPT ![p] = <<>>]
    /\ result' = [result EXCEPT ![p] = NoResult]

Next ==
    \E p \in Sequential :
        \/ QueryTool(p)
        \/ SchemaTool(p)
        \/ SqlTool(p)
        \/ Connect(p)
        \/ Attempt(p)
        \/ Return(p)

Spec == Init /\ [][Next]_vars

\* The library under the declarations of a table author: a parameter specification
\* applied to a value, and the tools generated from the author's specifications.
LibraryNext ==
    \E p \in Sequential :
        \/ ApplyParameter(p)
        \/ AuthoredTool(p)
        \/ Connect(p)
        \/ Attempt(p)
        \/ Return(p)

LibrarySpec == Init /\ [][LibraryNext]_vars

\* The server's own query tool on the AnalyticsReader.
ServerNext ==
    \E p \in Sequential :
        \/ ReaderQueryTable(p)
        \/ Return(p)

ServerSpec == Init /\ [][ServerNext]_vars

\* Two requests served at once: the steps of the invocations interleave.
ConcurrentNext ==
    \E p \in Procs :
        \/ InterleavedTool(p)
        \/ Connect(p)
        \/ Attempt(p)
        \/ Return(p)

ConcurrentSpec == Init /\ [][ConcurrentNext]_vars

\* The execution layer run to completion: the query tool of a generated table and the
\* hand-written one of market_anomalies_v3.  The code is synchronous and the driver's
\* calls return (the statement runs to its end or to the engine's timeout), so a
\* started invocation keeps taking its steps.
RetryNext ==
    \E p \in Sequential :
        \/ QueryTool(p)
        \/ QueryAnomalies(p)
        \/ Connect(p)
        \/ Attempt(p)
        \/ ExecuteQueryConnect(p)
        \/ ExecuteQueryAttempt(p)
        \/ Return(p)

RetrySpec ==
    /\ Init /\ [][RetryNext]_vars
    /\ \A p \in Sequential :
          /\ WF_vars(Connect(p)) /\ WF_vars(Attempt(p))
          /\ WF_vars(ExecuteQueryConnect(p)) /\ WF_vars(ExecuteQueryAttempt(p))

(***************************************************************************)
(* Properties.                                                             *)
(***************************************************************************)
IsError(r) == r.kind = "return" /\ DOMAIN r.env = {"error"}
IsSuccess(r) == r.kind = "return" /\ "rows" \in DOMAIN r.env
\* The invocation got as far as calling fetch.
ReachedFetch(p) == pc[p] # "idle" /\ result[p].kind # "raise"
\* The executions of the caller's statement, in order (not the defensive ROLLBACK).
StmtExecs(p) == SelectSeq(log[p], LAMBDA e : e.op = "execute" /\ e.sql # RollbackStmt)
\* The text the safety rule is stated for: the macro-expanded statement.
ExpandedText(p) == expand_macros(Strip(frame[p].fetch_sql))
\* The safety rule as the specification words it: SELECT or WITH first, and no
\* denylisted keyword as a whole word.
WordSafe(text) ==
    LET upper == StrUpper(LStrip(text))
    IN  /\ StartsWith(upper, "SELECT") \/ StartsWith(upper, "WITH")
        /\ \A keyword \in FORBIDDEN_KEYWORDS : ~ContainsWord(upper, keyword)
\* _prepare_query accepts the statement fetch was given.
Validates(p) ==
    \E r \in _prepare_query(frame[p].fetch_sql, frame[p].max_rows, frame[p].enforce_limit) : r.ok
EndsWith(s, t) == Len(s) >= Len(t) /\ SubSeq(s, Len(s) - Len(t) + 1, Len(s)) = t
AbortedMessages == {MsgSqlState, MsgAborted}

\* C1: every invocation of a generated SQL tool or of the query tool ends with an
\* envelope handed back to the caller; no error kind leaves the tool as an exception.
C1_EveryErrorIsAnEnvelope ==
    \A p \in Procs : pc[p] = "done" => result[p].kind = "return"

\* C2: a statement given to fetch is executed only if its macro-expanded text starts
\* with SELECT or WITH and holds no denylisted keyword as a word; any other statement
\* is answered with an error envelope and never executed.
C2_OnlySafeStatementsExecuted ==
    \A p \in Procs :
        ReachedFetch(p) =>
            /\ Len(StmtExecs(p)) > 0 => WordSafe(ExpandedText(p))
            /\ ~WordSafe(ExpandedText(p)) =>
                   /\ pc[p] = "done"
                   /\ IsError(result[p])
                   /\ Len(StmtExecs(p)) = 0
            /\ \A i \in 1..Len(StmtExecs(p)) : StmtExecs(p)[i].sql = frame[p].sql

C2_Witness ==
    \E p \in Procs :
        /\ pc[p] = "done"
        /\ call[p].sql_query = "SELECT * FROM t; DROP TABLE t"
        /\ result[p] = Returned(ErrorEnvelope("Forbidden keyword detected: DROP"))
        /\ log[p] = <<>>

\* C3: a SELECT/WITH statement in which denylisted keywords occur only inside longer
\* identifiers passes the safety check: it is never answered with a rejection (an
\* error produced before the connection is touched).
C3_SubstringsAreNotRejected ==
    \A p \in Procs :
        (ReachedFetch(p) /\ WordSafe(ExpandedText(p))) =>
            ~(pc[p] = "done" /\ IsError(result[p]) /\ log[p] = <<>>)

\* C4: when the statement is rejected (or empty) the invocation returns its error
\* with no operation performed on the connection: any use of the connection implies
\* that validation has accepted the statement.
C4_ValidationBeforeConnection ==
    \A p \in Procs :
        (ReachedFetch(p) /\ ~Validates(p)) =>
            /\ log[p] = <<>>
            /\ pc[p] = "done"
            /\ IsError(result[p])

C4_Witness ==
    \E p \in Procs :
        /\ pc[p] = "done"
        /\ call[p].sql_query = "DELETE FROM dummy"
        /\ result[p] = Returned(ErrorEnvelope("Only SELECT or WITH queries are allowed"))
        /\ log[p] = <<>>

\* C5: the statement is executed at most twice; when its first execution fails with
\* an aborted-transaction message it is executed a second time, and the invocation
\* returns the success envelope if that succeeds and an error if it fails again.
C5_RetryOnce ==
    \A p \in Procs :
        LET e == StmtExecs(p)
        IN  /\ Len(e) <= 2
            /\ (pc[p] = "done" /\ Len(e) >= 1 /\ e[1].msg \in AbortedMessages) =>
                   /\ Len(e) = 2
                   /\ e[2].ok => IsSuccess(result[p])
                   /\ ~e[2].ok => IsError(result[p]) /\ result[p].env.error = e[2].msg

C5_Witness ==
    \E p \in Procs :
        /\ pc[p] = "done"
        /\ Len(StmtExecs(p)) = 2
        /\ StmtExecs(p)[1].msg = MsgAborted
        /\ StmtExecs(p)[2].ok
        /\ IsSuccess(result[p])
        /\ result[p].env.row_count > 0

\* C6: with limit governance enabled, a success envelope never holds more rows than the
\* table's maximum cap.
C6_RowsWithinMaxLimit ==
    \A p \in Procs :
        (pc[p] = "done" /\ frame[p].enforce_limit /\ IsSuccess(result[p])) =>
            result[p].env.row_count <= MaxLimit

\* The numbers n of the LIMIT n clauses of a text.
LimitValues(text) ==
    {ParseInt(LimitMatchAt(text, i).digits) : i \in {j \in 1..Len(text) : LimitMatchAt(text, j).ok}}
\* fetch accepted the statement under limit governance: frame[p].limit is the effective cap.
Governed(p) == ReachedFetch(p) /\ frame[p].enforce_limit /\ frame[p].sql # ""
\* min(R or D, C)
RequestedOrDefault(p) == Min(PyOr(frame[p].max_rows, PyInt(DefaultLimit)).v, MaxLimit)

\* C7 as claimed: the effective cap never exceeds min(R or D, C), whatever R, and never
\* exceeds the n of a LIMIT n the statement contains.
C7_Original ==
    \A p \in Procs :
        Governed(p) =>
            /\ frame[p].limit.v <= RequestedOrDefault(p)
            /\ \A n \in LimitValues(ExpandedText(p)) : frame[p].limit.v <= n

\* C7 as amended: the effective cap never exceeds max(1, min(R or D, C)), and never
\* exceeds the n of the first LIMIT n of the statement.
C7_CapWithinBounds ==
    \A p \in Procs :
        Governed(p) =>
            /\ frame[p].limit.v <= Max(1, RequestedOrDefault(p))
            /\ LimitSearch(ExpandedText(p)).ok =>
                   frame[p].limit.v <= ParseInt(LimitSearch(ExpandedText(p)).digits)

C7_Witness ==
    \E p \in Procs :
        /\ Governed(p)
        /\ call[p].sql_query = "select a from t limit 9;"
        /\ frame[p].max_rows = PyInt(-1)
        /\ frame[p].limit = PyInt(1)
        /\ Len(StmtExecs(p)) > 0

\* C8: under limit governance a statement without a LIMIT clause is executed as its
\* expanded text, trailing semicolons removed, followed by " LIMIT c", c the effective
\* cap; the query tool given SELECT * FROM {{TABLE}} with max_rows 5 executes a text
\* that holds the table's full name and ends with LIMIT 5.
C8_LimitAppended ==
    \A p \in Procs :
        Governed(p) =>
            /\ ~ContainsWord(StrUpper(ExpandedText(p)), "LIMIT") =>
                   /\ frame[p].sql = RStripSemicolons(ExpandedText(p)) \o " LIMIT "
                                         \o ToString(frame[p].limit.v)
                   /\ \A i \in 1..Len(StmtExecs(p)) : StmtExecs(p)[i].sql = frame[p].sql
            /\ ( /\ call[p].tool = "query_table"
                 /\ call[p].sql_query = "SELECT * FROM {{TABLE}}"
                 /\ call[p].max_rows = PyInt(5)
                 /\ 5 <= MaxLimit ) =>
                   /\ Contains(frame[p].sql, full_table_name)
                   /\ EndsWith(frame[p].sql, " LIMIT 5")

C8_Witness ==
    \E p \in Procs :
        /\ pc[p] = "done"
        /\ call[p].sql_query = "SELECT * FROM {{TABLE}}"
        /\ call[p].max_rows = PyInt(5)
        /\ IsSuccess(result[p])
        /\ result[p].env.sql = "SELECT * FROM analytics.dummy LIMIT 5"
        /\ StmtExecs(p)[1].sql = "SELECT * FROM analytics.dummy LIMIT 5"

\* C9: in a success envelope truncated is true exactly when a row cap applies to the
\* invocation (the Limit Governor returned one) and as many rows as the cap came back;
\* it is false when fewer came back and when no cap applies.
C9_TruncatedIffCapReached ==
    \A p \in Procs :
        (pc[p] = "done" /\ IsSuccess(result[p])) =>
            (result[p].env.truncated <=>
                (~IsNone(frame[p].limit) /\ result[p].env.row_count = frame[p].limit.v))

\* C10: an envelope returned by fetch is either a success object with exactly columns,
\* rows, row_count, truncated and sql, row_count being the number of rows and sql the
\* text the last execute was given, or an object with the single field error.
C10_EnvelopeShape ==
    \A p \in Procs :
        result[p].kind = "return" =>
            LET env == result[p].env
                e == StmtExecs(p)
            IN  \/ DOMAIN env = {"error"}
                \/ /\ DOMAIN env = {"columns", "rows", "row_count", "truncated", "sql"}
                   /\ env.row_count = Len(env.rows)
                   /\ Len(e) > 0
                   /\ e[Len(e)].ok
                   /\ env.sql = e[Len(e)].sql

C10_Witness ==
    \E p \in Procs :
        /\ pc[p] = "done"
        /\ IsSuccess(result[p])
        /\ result[p].env.row_count = 3
        /\ Len(result[p].env.rows) = 3
        /\ result[p].env.sql = StmtExecs(p)[1].sql
\* The placeholders of a text, by position: those whose name is in the registry and
\* those whose name is not.
PlaceholdersAt(s) == {i \in 1..Len(s) : MacroMatchAt(s, i).ok}
RegisteredAt(s) == {i \in PlaceholdersAt(s) : MacroMatchAt(s, i).name \in MacroNames}
UnregisteredAt(s) == PlaceholdersAt(s) \ RegisteredAt(s)
PlaceholderText(s, i) == SubSeq(s, i, MacroMatchAt(s, i).end - 1)
UnregisteredTexts(s) == {PlaceholderText(s, i) : i \in UnregisteredAt(s)}

\* C11: expand_macros leaves every placeholder with an unregistered name as it is and
\* replaces every registered one: the expanded text of the query tool holds the same
\* unregistered placeholders, as many of them, and no registered one (but those the
\* value of a replaced macro holds); a template with only unregistered placeholders
\* is expanded to itself.
C11_UnknownMacrosKept ==
    \A p \in Procs :
        (call[p].tool = "query_table" /\ pc[p] # "idle") =>
            LET template == call[p].sql_query
                expanded == frame[p].fetch_sql
            IN  /\ UnregisteredTexts(expanded) = UnregisteredTexts(template)
                /\ Cardinality(UnregisteredAt(expanded)) = Cardinality(UnregisteredAt(template))
                /\ (\A i \in RegisteredAt(template) :
                       PlaceholdersAt(macros[MacroMatchAt(template, i).name].text) = {}) =>
                      RegisteredAt(expanded) = {}
                /\ RegisteredAt(template) = {} => expanded = template

C11_Witness ==
    \E p \in Procs :
        /\ call[p].sql_query = "SELECT {{FOO}}, {{BAR:x}} FROM {{TABLE}}"
        /\ frame[p].fetch_sql = "SELECT {{FOO}}, {{BAR:x}} FROM analytics.dummy"
        /\ Len(StmtExecs(p)) > 0
        /\ StmtExecs(p)[1].sql = "SELECT {{FOO}}, {{BAR:x}} FROM analytics.dummy LIMIT 3"

(***************************************************************************)
(* ParameterSpec.apply on its own.                                         *)
(***************************************************************************)
\* The invocation is a finished call of apply.
Applied(p) == call[p].tool = "apply" /\ pc[p] = "done"
\* The positions where a fragment of a comma-delimited text has its first and its
\* last character that is not blank.
NoCommaIn(t, i, j) == \A k \in i..j : Char(t, k) # ","
InFragment(t, i) == Char(t, i) # "," /\ ~IsSpace(Char(t, i))
FragmentStarts(t) ==
    {i \in 1..Len(t) :
        /\ InFragment(t, i)
        /\ \A j \in 1..(i - 1) : NoCommaIn(t, j, i) => IsSpace(Char(t, j))}
FragmentEnd(t, i) ==
    CHOOSE j \in i..Len(t) :
        /\ InFragment(t, j) /\ NoCommaIn(t, i, j)
        /\ \A k \in (j + 1)..Len(t) : NoCommaIn(t, j, k) => IsSpace(Char(t, k))
\* The trimmed, non-empty fragments in their order.
FragmentsFrom(t, starts) ==
    [n \in 1..Cardinality(starts) |->
        LET i == CHOOSE i \in starts : Cardinality({j \in starts : j < i}) = n - 1
        IN  PyStr(SubSeq(t, i, FragmentEnd(t, i)))]
Fragments(t) == FragmentsFrom(t, FragmentStarts(t))
\* A coerced element the parameter's bounds and choices admit.
WithinBounds(param, value) ==
    value.k = "int" =>
        /\ ~IsNone(param.min_value) => value.v >= param.min_value.v
        /\ ~IsNone(param.max_value) => value.v <= param.max_value.v
WithinChoices(param, value) ==
    ~IsNone(param.choices) =>
        \E i \in 1..Len(param.choices.v) : StrOf(param.choices.v[i]) = StrOf(value)
Admitted(param, coerced) ==
    coerced.ok /\ WithinBounds(param, coerced.value) /\ WithinChoices(param, coerced.value)
\* The outcome for a list whose elements are coerced and validated one by one.
ElementWise(param, coerced, r) ==
    IF \A i \in 1..Len(coerced) : Admitted(param, coerced[i])
    THEN r = Returned(PyList([i \in 1..Len(coerced) |-> coerced[i].value]))
    ELSE r.kind = "raise"
EachCoerced(param, elements, r) ==
    ElementWise(param, [i \in 1..Len(elements) |-> Coerce(param.coerce, elements[i])], r)
AppliedTo(p, name, value) ==
    Applied(p) /\ call[p].self.name = name /\ call[p].args[1] = value

\* C12: a list-shaped parameter takes a comma-delimited text (split, each fragment
\* trimmed, empty fragments dropped) or a list or tuple, coerces each element on its
\* own and validates each against the bounds and choices; anything else is refused
\* with a ValueError.  With choices a, b, c: "a,b" gives ["a","b"], "a,z" raises, and
\* ["A","B"] under a lower-casing coercion gives ["a","b"].
C12_ListParameter ==
    \A p \in Procs :
        /\ (Applied(p) /\ call[p].self.kind = "list") =>
              CASE call[p].args[1].k = "str" ->
                       EachCoerced(call[p].self, Fragments(call[p].args[1].v), result[p])
                [] call[p].args[1].k \in {"list", "tuple"} ->
                       EachCoerced(call[p].self, call[p].args[1].v, result[p])
                [] OTHER ->
                       result[p] = Raised("ValueError",
                           "Parameter '" \o call[p].self.name \o "' expects a list")
        /\ AppliedTo(p, "dims", PyStr("a,b")) =>
              result[p] = Returned(PyList(<<PyStr("a"), PyStr("b")>>))
        /\ AppliedTo(p, "dims", PyStr("a,z")) =>
              result[p].kind = "raise" /\ result[p].type = "ValueError"
        /\ AppliedTo(p, "tags", PyList(<<PyStr("A"), PyStr("B")>>)) =>
              result[p] = Returned(PyList(<<PyStr("a"), PyStr("b")>>))

\* A text with blank and empty fragments was split, trimmed and validated.
C12_Witness ==
    \E p \in Procs :
        /\ AppliedTo(p, "dims", PyStr(" a , ,b,"))
        /\ result[p] = Returned(PyList(<<PyStr("a"), PyStr("b")>>))

\* The scalars a normalized value consists of: itself, or the items of the list.
ScalarsOf(param, value) ==
    IF param.kind = "list" THEN {value.v[i] : i \in 1..Len(value.v)} ELSE {value}
Allowed(param, value) == WithinBounds(param, value) /\ WithinChoices(param, value)
\* The coerced scalars of an input every part of which coerces, else none: the value
\* under the coercion, or the items of a list, a tuple or a delimited text under it.
CoercedScalars(param, value) ==
    LET parts == IF param.kind # "list" THEN <<value>>
                 ELSE IF value.k = "str" THEN Fragments(value.v) ELSE value.v
        coerced == [i \in 1..Len(parts) |-> Coerce(param.coerce, parts[i])]
    IN  IF \A i \in 1..Len(parts) : coerced[i].ok
        THEN {coerced[i].value : i \in 1..Len(parts)}
        ELSE {}
HasShape(param, value) == param.kind = "list" => value.k \in {"str", "list", "tuple"}

ToolCalled(p) ==
    pc[p] # "idle" /\ call[p].tool \in {AllTools[i].name : i \in 1..Len(AllTools)}
ParamNames(spec, from, to) == {spec.params[i].name : i \in from..to}
\* What is wrong with the arguments of a call: too many positional ones, a named one
\* that is no parameter or is already bound by position, a parameter left without
\* a value.
TooManyPositionals(spec, args) == Len(args) > Len(spec.params)
StrayNamed(spec, args, kwargs) ==
    \E name \in KwNames(kwargs) :
        \/ name \notin ParamNames(spec, 1, Len(spec.params))
        \/ name \in ParamNames(spec, 1, Min(Len(args), Len(spec.params)))
Omitted(spec, args, kwargs) ==
    \E i \in (Len(args) + 1)..Len(spec.params) :
        ~spec.params[i].has_default /\ spec.params[i].name \notin KwNames(kwargs)
BadCall(spec, args, kwargs) ==
    TooManyPositionals(spec, args) \/ StrayNamed(spec, args, kwargs)
        \/ Omitted(spec, args, kwargs)
\* The argument a parameter is bound to: by position, else by name, else its default.
ArgumentFor(spec, args, kwargs, i) ==
    IF i <= Len(args) THEN args[i]
    ELSE IF \E j \in 1..Len(kwargs) : kwargs[j][1] = spec.params[i].name
         THEN kwargs[CHOOSE j \in 1..Len(kwargs) : kwargs[j][1] = spec.params[i].name][2]
         ELSE spec.params[i].default
\* Nothing of the tool after the binding has happened.
NothingRendered(p) == call[p].prepared = <<>> /\ frame[p] = NoFrame /\ log[p] = <<>>
BoundInOrder(spec, args, kwargs, values) ==
    /\ DOMAIN values = ParamNames(spec, 1, Len(spec.params))
    /\ \A i \in 1..Len(spec.params) :
          Ok(values[spec.params[i].name]) =
              apply(spec.params[i], ArgumentFor(spec, args, kwargs, i))

\* The hooks that write into the values map they are given; what is bound after one
\* of them is the subject of C26.
WritingHooks == {"_prepare_issue_scope_flex"}

\* C14: a generated tool binds its positional arguments to the parameters in declared
\* order and the others by name or default; with too many positional arguments, a
\* named argument that is no parameter or names one bound by position, or a parameter
\* without default left out, the call raises before the synthesis hook is called and
\* before any SQL is rendered or executed.
C14_BindingBeforeSynthesis ==
    \A p \in Procs :
        ToolCalled(p) =>
            /\ BadCall(ToolSpec(call[p].tool), call[p].args, call[p].kwargs) =>
                  (result[p].kind = "raise" /\ NothingRendered(p))
            /\ \A i \in 1..Len(call[p].prepared) :
                  BoundInOrder(ToolSpec(call[p].tool), call[p].args, call[p].kwargs,
                               call[p].prepared[i])
            /\ (/\ result[p].kind # "raise" /\ frame[p].params # None
                /\ ToolSpec(call[p].tool).prepare \notin WritingHooks) =>
                  \A i \in 1..Len(frame[p].params.v) :
                      \E j \in 1..Len(ToolSpec(call[p].tool).params) :
                          Ok(frame[p].params.v[i]) =
                              apply(ToolSpec(call[p].tool).params[j],
                                    ArgumentFor(ToolSpec(call[p].tool), call[p].args,
                                                call[p].kwargs, j))

\* A named argument naming a parameter already bound by position was refused with
\* the hook not called.
C14_Witness ==
    \E p \in Procs :
        /\ call[p].tool = "issue_scope_combined"
        /\ call[p].args = <<PyStr("ql2"), PyStr("qf")>>
        /\ call[p].kwargs = <<<<"site", PyStr("qf")>>>>
        /\ result[p] = Raised("TypeError", "Unexpected argument(s): site")
        /\ NothingRendered(p)

\* The positions of the placeholders :name of a text, and the name at one.
PlaceholderAt(text) ==
    {i \in 1..(Len(text) - 1) : Char(text, i) = ":" /\ IsAliasStart(Char(text, i + 1))}
NameAt(text, i) == SubSeq(text, i + 1, RunEnd(text, i + 1, IsWordChar) - 1)
\* The parameters that take part in the substitution.
Substituted(spec) ==
    {spec.params[i].name : i \in {j \in 1..Len(spec.params) : spec.params[j].include_in_sql}}
\* The text rendering works on, for the values the arguments bind.
TemplateText(spec, bound) == expand_macros(Template(spec, bound.value))
UnknownNames(spec, text) == {NameAt(text, i) : i \in PlaceholderAt(text)} \ Substituted(spec)
RefusedForOneOf(p, names) ==
    /\ \E name \in names : result[p] = Raised("ValueError", "Unknown SQL parameter :" \o name)
    /\ frame[p] = NoFrame
    /\ log[p] = <<>>
UnknownRefused(p, spec, bound) ==
    (/\ bound.ok /\ Prepare(spec, bound.value).ok
     /\ UnknownNames(spec, TemplateText(spec, bound)) # {}) =>
        RefusedForOneOf(p, UnknownNames(spec, TemplateText(spec, bound)))

\* C15: when the macro-expanded template holds a placeholder :name that names no
\* declared parameter taking part in the substitution (one declared with
\* include_in_sql false counts as none), rendering raises a ValueError naming it: no
\* text is handed to fetch and nothing is executed.
C15_UnknownPlaceholderFails ==
    \A p \in Procs :
        ToolCalled(p) =>
            UnknownRefused(p, ToolSpec(call[p].tool),
                           BindArguments(ToolSpec(call[p].tool), call[p].args, call[p].kwargs))

\* A placeholder naming a parameter kept out of the SQL was refused.
C15_Witness ==
    \E p \in Procs :
        /\ call[p].tool = "by_dims" /\ pc[p] = "done"
        /\ call[p].args = <<PyStr("aa"), PyStr("b,c")>>
        /\ result[p] = Raised("ValueError", "Unknown SQL parameter :dims")
        /\ log[p] = <<>>

\* The n-th position of a set of positions.
NthOf(positions, n) ==
    CHOOSE i \in positions : Cardinality({j \in positions : j < i}) = n - 1
\* The placeholders of literal parameters and of the bound ones.
IsLiteral(spec, name) ==
    \E i \in 1..Len(spec.params) : spec.params[i].name = name /\ spec.params[i].as_literal
BoundAt(spec, text) == {i \in PlaceholderAt(text) : ~IsLiteral(spec, NameAt(text, i))}
MarkersAt(sql) == {i \in 1..(Len(sql) - 1) : SubSeq(sql, i, i + 1) = "%s"}
RECURSIVE Concat(_)
Concat(texts) == IF Len(texts) = 0 THEN "" ELSE Head(texts) \o Concat(Tail(texts))
\* The text from the end of the (n-1)-th placeholder to the n-th, then what the
\* n-th becomes; after the last placeholder, the rest of the text.
PieceEnd(text, i) == RunEnd(text, i + 1, IsWordChar)
Piece(spec, values, text, positions, n) ==
    IF n > Cardinality(positions)
    THEN SubSeq(text, IF n = 1 THEN 1 ELSE PieceEnd(text, NthOf(positions, n - 1)), Len(text))
    ELSE SubSeq(text, IF n = 1 THEN 1 ELSE PieceEnd(text, NthOf(positions, n - 1)),
                NthOf(positions, n) - 1)
         \o (IF IsLiteral(spec, NameAt(text, NthOf(positions, n)))
             THEN StrOf(values[NameAt(text, NthOf(positions, n))])
             ELSE "%s")
Substitution(spec, values, text, positions) ==
    Concat([n \in 1..(Cardinality(positions) + 1) |-> Piece(spec, values, text, positions, n)])
\* What fetch was handed agrees with the template and the values, marker by marker.
MarkersMatchValues(spec, values, text, sql, params) ==
    /\ sql = Substitution(spec, values, text, PlaceholderAt(text))
    /\ Cardinality(MarkersAt(sql)) = Len(params)
    /\ Len(params) = Cardinality(BoundAt(spec, text))
    /\ \A n \in 1..Len(params) :
          params[n] = values[NameAt(text, NthOf(BoundAt(spec, text), n))]
RenderedAsBound(p, spec, bound) ==
    MarkersMatchValues(spec, Prepare(spec, bound.value).value.values,
                       TemplateText(spec, bound),
                       frame[p].fetch_sql, frame[p].params.v)
\* The invocation called fetch from a generated tool.
ToolFetched(p) == ToolCalled(p) /\ result[p].kind # "raise"

\* C16: rendering replaces each placeholder of a bound parameter by one marker %s
\* and appends the validated value to the bound list, so the markers are as many as
\* the values and the i-th marker stands for the i-th value (a parameter referenced
\* k times is bound k times); the value of a literal parameter is written into the
\* text as str(value) and is not bound; a value without coercion is bound as given:
\* code "aa" is bound as ["aa"], and LIMIT :limit with the literal default 20 becomes
\* LIMIT 20.
C16_MarkersMatchBoundValues ==
    \A p \in Procs :
        /\ ToolFetched(p) =>
              RenderedAsBound(p, ToolSpec(call[p].tool),
                  BindArguments(ToolSpec(call[p].tool), call[p].args, call[p].kwargs))
        /\ ( /\ ToolFetched(p) /\ call[p].tool = "code_counts"
             /\ call[p].args = <<PyStr("aa")>> /\ call[p].kwargs = <<>> ) =>
              /\ frame[p].params = PyTuple(<<PyStr("aa")>>)
              /\ EndsWith(frame[p].fetch_sql, "WHERE code ILIKE %s GROUP BY 1 LIMIT 20")

\* A parameter referenced twice was bound twice, in the order of the markers, with
\* the literal written into the text.
C16_Witness ==
    \E p \in Procs :
        /\ call[p].tool = "code_pairs" /\ pc[p] = "done" /\ IsSuccess(result[p])
        /\ frame[p].params = PyTuple(<<PyStr("y"), PyInt(4), PyStr("y"), PyInt(4)>>)
        /\ EndsWith(frame[p].fetch_sql,
                    "WHERE a = %s AND n > %s AND b = %s AND m < %s LIMIT 2")

\* C17: for a tool specification that sets both max_rows and max_rows_param, a
\* success envelope never holds more rows than max_rows, whatever the caller passes
\* for the parameter.
C17_RowsWithinMaxRows ==
    \A p \in Procs :
        ( /\ ToolCalled(p) /\ IsSuccess(result[p])
          /\ ~IsNone(ToolSpec(call[p].tool).max_rows)
          /\ ~IsNone(ToolSpec(call[p].tool).max_rows_param) ) =>
            result[p].env.row_count <= ToolSpec(call[p].tool).max_rows.v

(***************************************************************************)
(* The connection of an invocation.                                        *)
(***************************************************************************)
\* The operations of one kind the invocation performed.
OpsOf(p, ops) == SelectSeq(log[p], LAMBDA e : e.op \in ops)
\* The invocation obtained a connection.
Acquired(p) == \E i \in 1..Len(log[p]) : log[p][i].op = "get_connection" /\ log[p][i].ok
\* One acquisition; the statement run once, or twice when the first run failed with
\* an aborted transaction.
AcquiredOnceOneStatement(p) ==
    /\ Len(OpsOf(p, {"get_connection"})) = 1
    /\ Len(StmtExecs(p)) \in {1, 2}
    /\ \A i \in 1..Len(StmtExecs(p)) :
          StmtExecs(p)[i].sql = frame[p].sql /\ StmtExecs(p)[i].params = frame[p].params
    /\ Len(StmtExecs(p)) = 2 => ~StmtExecs(p)[1].ok
\* The connection was given back: the last thing done with it is a release.
Released(p) == log[p][Len(log[p])].op \in {"close", "release", "putconn"}

\* C18: an invocation that passed validation and returns, with a payload or an error,
\* has acquired a connection exactly once, has run exactly one statement on it plus at
\* most one retry, and has released it before returning.
C18_ConnectionReleased ==
    \A p \in Procs :
        (pc[p] = "done" /\ Acquired(p)) => (AcquiredOnceOneStatement(p) /\ Released(p))

\* The part of C18 about the acquisition and the statement, without the release.
AcquisitionAndStatement ==
    \A p \in Procs : (pc[p] = "done" /\ Acquired(p)) => AcquiredOnceOneStatement(p)

(***************************************************************************)
(* The server's query_table.                                               *)
(***************************************************************************)
\* C20: the server's query_table returns at most `limit` records for every query it
\* accepts, also when the text of the query already holds the word LIMIT.
C20_RecordsWithinLimit ==
    \A p \in Procs :
        (call[p].tool = "server.query_table" /\ result[p].kind = "return") =>
            Len(result[p].env.records) <= call[p].max_rows.v

(***************************************************************************)
(* Invocations in flight at once.                                          *)
(***************************************************************************)
\* The retry counter counts the invocation's own retried failures.
OwnRetries(p) == frame[p].attempts = Len(OpsOf(p, {"rollback"}))
\* What the invocation returns follows from its own executions: a first failure by
\* an aborted transaction is retried, and the last execution decides the envelope.
LastDecides(p, last) ==
    IF last.ok
    THEN IsSuccess(result[p]) /\ result[p].env.sql = frame[p].sql
    ELSE result[p] = Returned(ErrorEnvelope(last.msg))
OwnOutcome(p) ==
    (pc[p] = "done" /\ Acquired(p)) =>
        /\ (Contains(StmtExecs(p)[1].msg, "25P02") \/ Contains(StmtExecs(p)[1].msg, "aborted"))
              => Len(StmtExecs(p)) = 2
        /\ LastDecides(p, StmtExecs(p)[Len(StmtExecs(p))])
\* The value map is that of the invocation's own arguments, and the statement of
\* the query tool is the caller's own.
OwnValues(p) ==
    /\ ToolCalled(p) =>
          call[p].prepared = ToolPrepares(ToolSpec(call[p].tool), call[p].args, call[p].kwargs)
    /\ (call[p].tool = "query_table" /\ pc[p] # "idle") =>
          frame[p].fetch_sql = expand_macros(call[p].sql_query)
Alone(p) == OwnRetries(p) /\ OwnOutcome(p) /\ OwnValues(p)
\* A step touches one invocation and leaves the others as they are.
OthersUntouched ==
    \E p \in Procs :
        \A q \in Procs \ {p} :
            /\ pc'[q] = pc[q] /\ call'[q] = call[q] /\ frame'[q] = frame[q]
            /\ log'[q] = log[q] /\ result'[q] = result[q]

partition_guardrail == [column |-> "sales_date"]
NamesPartition(text) == Contains(StrLower(text), partition_guardrail.column)

\* C21: on a table declared with a partition guardrail on a column, a fetch of a
\* query that does not reference the column executes nothing and returns an error
\* envelope whose message names the column, whether or not the limit is enforced
\* (stated for the queries the safety validation lets through).
C21_GuardrailBlocks ==
    \A p \in Procs :
        (ReachedFetch(p) /\ Validates(p) /\ ~NamesPartition(frame[p].fetch_sql)) =>
            /\ pc[p] = "done"
            /\ log[p] = <<>>
            /\ IsError(result[p])
            /\ Contains(result[p].env.error, partition_guardrail.column)

\* The explicit rollbacks of the connection, in order.
ConnRollbacks(p) == SelectSeq(log[p], LAMBDA e : e.op = "rollback")
\* The invocation is inside the execution layer.
Executing(p) == pc[p] \in {"connect", "attempt", "execute_query", "execute_attempt"}
RetryBounded(p) ==
    LET e == StmtExecs(p)
    IN  /\ Len(e) <= 2
        /\ Len(ConnRollbacks(p)) <= 1
        /\ Len(e) = 2 => (~e[1].ok /\ e[1].msg \in AbortedMessages)
        /\ (pc[p] = "done" /\ Len(e) >= 1 /\ ~e[1].ok /\ e[1].msg \notin AbortedMessages) =>
               /\ Len(e) = 1
               /\ IsError(result[p])
               /\ result[p].env.error = e[1].msg
\* An envelope, once handed over, is not replaced by another.
OneEnvelope ==
    \A p \in Procs :
        /\ result[p].kind = "return" => result'[p] \in {result[p], NoResult}
        /\ result'[p].kind = "return" => pc'[p] = "done"

\* C22: in every invocation the statement is executed at most twice and the connection
\* is rolled back explicitly at most once; it is executed a second time only when its
\* first execution failed with a message of an aborted transaction; any other failure
\* ends the invocation after one execution with the engine's message as the error; and
\* every invocation that entered the execution layer ends with exactly one envelope.
C22_BoundedRetryTerminates ==
    /\ [](\A p \in Procs : RetryBounded(p))
    /\ \A p \in Procs : Executing(p) ~> (pc[p] = "done" /\ result[p].kind = "return")
    /\ [][OneEnvelope]_vars

\* The hand-written tool met an aborted transaction, rolled back once, ran the
\* statement again and returned rows.
C22_Witness ==
    \E p \in Procs :
        /\ call[p].tool = "query_anomalies"
        /\ pc[p] = "done" /\ IsSuccess(result[p])
        /\ Len(StmtExecs(p)) = 2
        /\ StmtExecs(p)[1].msg = MsgAborted
        /\ Len(ConnRollbacks(p)) = 1
        /\ result[p].env.row_count > 0


\* The first LIMIT clause of the statement the governor is given, its number, the text
\* before it and the text after it.
FirstLimit(p) == LimitSearch(ExpandedText(p))
FirstLimitN(p) == ParseInt(FirstLimit(p).digits)
BeforeLimit(p) == SubSeq(ExpandedText(p), 1, FirstLimit(p).start - 1)
AfterLimit(p) == SubSeq(ExpandedText(p), FirstLimit(p).end, Len(ExpandedText(p)))
LimitGoverned(p) ==
    ReachedFetch(p) /\ frame[p].enforce_limit /\ Validates(p) /\ FirstLimit(p).ok

\* C23: the limit governor only tightens.  When the statement holds LIMIT n with n no
\* larger than the computed cap, the text is left as it is and the effective cap is n;
\* when n is larger, the first LIMIT clause alone is rewritten to the cap, and the text
\* before it and after it (a later LIMIT clause included) is left as it is.
C23_GovernorOnlyTightens ==
    \A p \in Procs :
        LimitGoverned(p) =>
            IF FirstLimitN(p) <= ComputedCap(frame[p].max_rows)
            THEN /\ frame[p].sql = ExpandedText(p)
                 /\ frame[p].limit = PyInt(FirstLimitN(p))
            ELSE /\ frame[p].limit = PyInt(ComputedCap(frame[p].max_rows))
                 /\ StartsWith(frame[p].sql, BeforeLimit(p))
                 /\ EndsWith(frame[p].sql, AfterLimit(p))
                 /\ Len(frame[p].sql) > Len(BeforeLimit(p)) + Len(AfterLimit(p))
                 /\ SubSeq(frame[p].sql, Len(BeforeLimit(p)) + 1,
                           Len(frame[p].sql) - Len(AfterLimit(p)))
                        = "LIMIT " \o ToString(ComputedCap(frame[p].max_rows))

\* A statement of two LIMIT clauses was run under a cap of 1: the inner LIMIT 9 became
\* LIMIT 1 and the outer LIMIT 2 stayed.
C23_Witness ==
    \E p \in Procs :
        /\ call[p].sql_query = "SELECT * FROM (SELECT a FROM t LIMIT 9) x LIMIT 2"
        /\ frame[p].max_rows = PyInt(1)
        /\ frame[p].sql = "SELECT * FROM (SELECT a FROM t LIMIT 1) x LIMIT 2"
        /\ pc[p] = "done" /\ IsSuccess(result[p])


\* The reference to a registered macro, as it is written in a statement.
MacroReference(name) == "{{" \o name \o "}}"
\* One pass over the caller's text: a reference to a registered macro that is left
\* in it was put there by a replacement.
OnePass(p) == expand_macros(call[p].sql_query)

\* C24: macro expansion is a single pass over the whole pipeline: the text a
\* replacement introduces is not scanned again before execution, so a reference to a
\* registered macro that the value of another macro holds is still in the statement
\* that is executed.
C24_ExpansionIsSinglePass ==
    \A p \in Procs :
        (call[p].tool = "query_table" /\ StmtExecs(p) # <<>>) =>
            \A name \in MacroNames :
                Contains(OnePass(p), MacroReference(name)) =>
                    Contains(StmtExecs(p)[1].sql, MacroReference(name))


\* The calls of one kind an application made, in order, and their arguments.
CallsOf(p, op) == SelectSeq(log[p], LAMBDA e : e.op = op)
ArgsOf(p, op) == [i \in 1..Len(CallsOf(p, op)) |-> CallsOf(p, op)[i].params]
StepRank(op) == CASE op = "coerce" -> 1 [] op = "transform" -> 2 [] OTHER -> 3
\* Coercion calls come first, then the transform, then the validation calls.
InFixedOrder(p) ==
    \A i, j \in 1..Len(log[p]) : i < j => StepRank(log[p][i].op) <= StepRank(log[p][j].op)
\* A call that raised is the last call, and its exception leaves apply.
FailureEnds(p) ==
    \A i \in 1..Len(log[p]) : ~log[p][i].ok => (i = Len(log[p]) /\ result[p].kind = "raise")
\* The transform is given what the coercion calls returned, as a whole.
TransformsCoerced(p) ==
    (CallsOf(p, "transform") # <<>> /\ call[p].self.coerce # "none") =>
        ItemsOf(call[p].self, ArgsOf(p, "transform")[1])
            = [i \in 1..Len(ArgsOf(p, "coerce")) |->
                  Coerce(call[p].self.coerce, ArgsOf(p, "coerce")[i]).value]
\* The items validation is to see: what the transform returned, or else what the
\* coercion calls returned.
ToValidate(p) ==
    IF CallsOf(p, "transform") # <<>>
    THEN ItemsOf(call[p].self,
                 Transform(call[p].self.transform, ArgsOf(p, "transform")[1]).value)
    ELSE [i \in 1..Len(ArgsOf(p, "coerce")) |->
             Coerce(call[p].self.coerce, ArgsOf(p, "coerce")[i]).value]
ValidatesLast(p) ==
    /\ call[p].self.kind = "list" =>
          \A i \in 1..Len(ArgsOf(p, "validate")) :
              ArgsOf(p, "validate")[i].k \notin {"list", "tuple"}
    /\ (call[p].self.coerce # "none" /\ CallsOf(p, "validate") # <<>>) =>
          /\ Len(ArgsOf(p, "validate")) <= Len(ToValidate(p))
          /\ ArgsOf(p, "validate") = SubSeq(ToValidate(p), 1, Len(ArgsOf(p, "validate")))
    /\ (call[p].self.transform # "none" /\ CallsOf(p, "validate") # <<>>) =>
          CallsOf(p, "transform") # <<>>
\* What apply returns went through validation, item by item.
ReturnsValidated(p) ==
    result[p].kind = "return" =>
        /\ ArgsOf(p, "validate") = ItemsOf(call[p].self, result[p].env)
        /\ \A i \in 1..Len(ItemsOf(call[p].self, result[p].env)) :
              _validate_scalar(call[p].self, ItemsOf(call[p].self, result[p].env)[i]).ok

\* C25: apply performs its steps in a fixed order: shape normalization, coercion item
\* by item, the transform, then bounds and choice validation.  Validation is given the
\* coerced and transformed value, item by item for a list and never the list as a
\* whole, and a coercion that fails leaves both the transform and the validation
\* uncalled.
C25_FixedCoercionOrder ==
    \A p \in Procs :
        Applied(p) =>
            /\ InFixedOrder(p)
            /\ FailureEnds(p)
            /\ TransformsCoerced(p)
            /\ ValidatesLast(p)
            /\ ReturnsValidated(p)

\* '3' was coerced to 3 and doubled, and the validation was given 6 and refused it.
C25_Witness ==
    \E p \in Procs :
        /\ Applied(p)
        /\ call[p].self.name = "scale"
        /\ call[p].args = <<PyStr("3")>>
        /\ log[p] = <<CallOp("coerce", PyStr("3"), TRUE), CallOp("transform", PyInt(3), TRUE),
                      CallOp("validate", PyInt(6), FALSE)>>
        /\ result[p] = Raised("ValueError", "scale must be <= " \o ToString(MaxId))


\* The generated tool of the invocation declares a synthesis hook.
Hooked(p) == ToolCalled(p) /\ ToolSpec(call[p].tool).prepare # "none"
\* The call binds, and every parameter, defaulted ones included, applies.
AllApplied(spec, args, kwargs) ==
    /\ ~BadCall(spec, args, kwargs)
    /\ \A i \in 1..Len(spec.params) :
          apply(spec.params[i], ArgumentFor(spec, args, kwargs, i)).ok
\* What the hook made of the values map it was called with.
Written(p) == Prepare(ToolSpec(call[p].tool), call[p].prepared[1])
HookedOnceAfterApply(p) ==
    /\ Len(call[p].prepared) =
           IF AllApplied(ToolSpec(call[p].tool), call[p].args, call[p].kwargs)
           THEN 1 ELSE 0
    /\ \A i \in 1..Len(call[p].prepared) :
          BoundInOrder(ToolSpec(call[p].tool), call[p].args, call[p].kwargs,
                       call[p].prepared[i])
RenderedAsWritten(p) ==
    (Len(call[p].prepared) = 1 /\ Written(p).ok /\ result[p].kind # "raise") =>
        MarkersMatchValues(ToolSpec(call[p].tool), Written(p).value.values,
                           expand_macros(Written(p).value.template),
                           frame[p].fetch_sql, frame[p].params.v)

\* C26: the synthesis hook of a generated tool is called once per invocation, with
\* the validated values, when every declared parameter (defaulted ones included) was
\* coerced and validated, and not at all when one of them failed; the statement is
\* rendered from the template the hook returns, and a value the hook wrote into the
\* values map is the one bound or spliced.
C26_HookOnceAndItsValuesRendered ==
    \A p \in Procs : Hooked(p) => (HookedOnceAfterApply(p) /\ RenderedAsWritten(p))

\* The hook took provider and site from the request text; they were bound in place
\* of the empty defaults it was called with.
C26_Witness ==
    \E p \in Procs :
        /\ call[p].tool = "issue_scope_combined_flex"
        /\ Len(call[p].prepared) = 1
        /\ call[p].prepared[1]["provider"] = PyStr("")
        /\ call[p].prepared[1]["request"] = PyStr("scope of QL2|QF today")
        /\ result[p].kind # "raise"
        /\ frame[p].params = PyTuple(<<PyStr("QL2"), PyStr("QF")>>)


\* None, str, int, float, bool: what a JSON document holds as a scalar.
Primitive(value) == value.k \in {"None", "str", "int", "float", "bool"}
\* text is the bytes read as UTF-8 with what is no UTF-8 left out.
IsDecoded(text, bytes) ==
    LET kept == SelectSeq(bytes, LAMBDA b : ~NeverUtf8(b))
    IN  /\ Len(text) = Len(kept)
        /\ \A n \in 1..Len(kept) : Char(text, n) = Ascii(kept[n])
\* text is YYYY-MM-DD, followed by THH:MM:SS for a datetime, of the fields.
IsIsoText(text, fields) ==
    /\ Len(text) = IF Len(fields) = 3 THEN 10 ELSE 19
    /\ Char(text, 5) = "-" /\ Char(text, 8) = "-"
    /\ ParseInt(SubSeq(text, 1, 4)) = fields[1]
    /\ ParseInt(SubSeq(text, 6, 7)) = fields[2]
    /\ ParseInt(SubSeq(text, 9, 10)) = fields[3]
    /\ Len(fields) = 6 =>
          /\ Char(text, 11) = "T" /\ Char(text, 14) = ":" /\ Char(text, 17) = ":"
          /\ ParseInt(SubSeq(text, 12, 13)) = fields[4]
          /\ ParseInt(SubSeq(text, 15, 16)) = fields[5]
          /\ ParseInt(SubSeq(text, 18, 19)) = fields[6]
\* text is the decimal numeral of unscaled * 10^-scale, scale > 0.
IsDecimalText(text, unscaled, scale) ==
    LET digits == IF unscaled < 0 THEN SubSeq(text, 2, Len(text)) ELSE text
    IN  /\ (unscaled < 0) <=> (Char(text, 1) = "-")
        /\ Char(digits, Len(digits) - scale) = "."
        /\ ParseInt(SubSeq(digits, 1, Len(digits) - scale - 1)
                    \o SubSeq(digits, Len(digits) - scale + 1, Len(digits)))
               = Abs(unscaled)
\* What a cell of a success envelope is, given the raw value of the driver.
Normalized(cell, raw) ==
    /\ Primitive(cell)
    /\ Primitive(raw) => cell = raw
    /\ raw.k = "bytes" => (cell.k = "str" /\ IsDecoded(cell.v, raw.v))
    /\ raw.k \in {"date", "datetime"} => (cell.k = "str" /\ IsIsoText(cell.v, raw.v))
    /\ raw.k = "Decimal" => (cell.k = "str" /\ IsDecimalText(cell.v, raw.v[1], raw.v[2]))
    /\ raw.k = "list" => cell = PyStr(StrOf(raw))
\* The invocation returned a success envelope of fetch.
FetchSucceeded(p) ==
    pc[p] = "done" /\ IsSuccess(result[p]) /\ call[p].tool # "query_anomalies"

\* C27: every cell of every row of a success envelope is null, a string, an integer,
\* a float or a boolean: bytes are decoded to text, a value with isoformat is
\* replaced by its isoformat text, any other non-primitive value by str(value),
\* primitives are unchanged; each row has exactly one entry per column name.
C27_RowsArePrimitive ==
    \A p \in Procs :
        FetchSucceeded(p) =>
            \A i \in 1..Len(result[p].env.rows) :
                /\ DOMAIN result[p].env.rows[i] = {Columns[j] : j \in 1..Len(Columns)}
                /\ \A j \in 1..Len(Columns) :
                      Normalized(result[p].env.rows[i][Columns[j]], RawRow(i)[j])

\* Five rows came back: bytes with a byte that is no UTF-8, a date, a datetime and
\* two Decimals among their cells.
C27_Witness ==
    \E p \in Procs :
        /\ FetchSucceeded(p)
        /\ Len(result[p].env.rows) = 5
        /\ result[p].env.rows[1]["at"] = PyStr("2024-11-30T07:05:00")
        /\ result[p].env.rows[3] =
               [id |-> PyInt(3), val |-> PyStr("ab"), at |-> PyStr("-0.05")]
        /\ result[p].env.rows[4]["val"] = PyStr("2024-01-02")
        /\ result[p].env.rows[5] =
               [id |-> PyInt(5), val |-> PyStr("1.50"), at |-> PyInt(0 - 1)]


\* The positions of the log where the caller's statement was executed, and those
\* where a best-effort step failed: the autocommit toggle, the defensive ROLLBACK,
\* the rollback of the connection before the retry.
StmtAt(p) ==
    {k \in 1..Len(log[p]) : log[p][k].op = "execute" /\ log[p][k].sql # RollbackStmt}
DefensiveAt(p) ==
    {k \in 1..Len(log[p]) : log[p][k].op = "execute" /\ log[p][k].sql = RollbackStmt}
BestEffortFailedAt(p) ==
    {k \in DefensiveAt(p) \cup {j \in 1..Len(log[p]) :
                                   log[p][j].op \in {"set_autocommit", "rollback"}} :
        ~log[p][k].ok}
SetMax(S) == CHOOSE x \in S : \A y \in S : x >= y
\* Every execution of the statement comes right after a defensive ROLLBACK on the
\* same cursor, and each defensive ROLLBACK is followed by the statement.
RollbackBeforeStatement(p) ==
    /\ \A k \in StmtAt(p) : k - 1 \in DefensiveAt(p) /\ log[p][k - 2].op = "cursor"
    /\ \A k \in DefensiveAt(p) : k + 1 \in StmtAt(p)
\* A best-effort step that failed is followed by an execution of the statement.
StillExecuted(p) ==
    pc[p] = "done" => \A k \in BestEffortFailedAt(p) : \E j \in StmtAt(p) : j > k
\* The envelope is the one of the last execution of the statement.
OutcomeOfStatement(p) ==
    (pc[p] = "done" /\ StmtAt(p) # {}) =>
        IF log[p][SetMax(StmtAt(p))].ok
        THEN IsSuccess(result[p])
        ELSE result[p] = Returned(ErrorEnvelope(log[p][SetMax(StmtAt(p))].msg))

\* C28: a defensive ROLLBACK is issued before the statement on every attempt, the
\* retry included; it is best effort: when it fails, when the autocommit toggle
\* fails, or when the rollback of the connection before the retry fails, the failure
\* is ignored, the statement is still executed, and the outcome of the invocation is
\* that of the statement's own execution.
C28_BestEffortRollbacks ==
    \A p \in Procs :
        RollbackBeforeStatement(p) /\ StillExecuted(p) /\ OutcomeOfStatement(p)

\* The autocommit toggle, both defensive ROLLBACKs and the rollback before the retry
\* failed; the statement, executed twice, returned rows the second time.
C28_Witness ==
    \E p \in Procs :
        /\ pc[p] = "done"
        /\ Cardinality(BestEffortFailedAt(p)) = 4
        /\ Cardinality(StmtAt(p)) = 2
        /\ IsSuccess(result[p])
        /\ result[p].env.row_count > 0


\* A position of a text is inside a quoted literal: an odd number of quotes before it.
InLiteral(text, i) == Cardinality({j \in 1..(i - 1) : Char(text, j) = "'"}) % 2 = 1
\* The colons followed by an identifier that are the second colon of a cast ::TYPE,
\* and those that refer to a parameter: a single colon outside a quoted literal.
CastAt(text) == {i \in PlaceholderAt(text) : i > 1 /\ Char(text, i - 1) = ":"}
ReferenceAt(text) == {i \in PlaceholderAt(text) \ CastAt(text) : ~InLiteral(text, i)}
\* The text the tool renders for the call, when the call binds and its hook returns.
Renders(p) ==
    /\ ToolCalled(p)
    /\ AllApplied(ToolSpec(call[p].tool), call[p].args, call[p].kwargs)
    /\ Prepare(ToolSpec(call[p].tool),
               BindArguments(ToolSpec(call[p].tool), call[p].args, call[p].kwargs).value).ok
RenderedText(p) ==
    TemplateText(ToolSpec(call[p].tool),
                 BindArguments(ToolSpec(call[p].tool), call[p].args, call[p].kwargs))

\* C29: only a single colon followed by an identifier is a parameter reference: a
\* cast expr::TYPE and a colon inside a quoted literal are left as they are and raise
\* no unknown-parameter error, so a template whose references all name parameters of
\* the substitution is rendered, casts included; top_site_issues, whose template
\* casts sitecode::VARCHAR, renders.
C29_CastsAreNotParameters ==
    \A p \in Procs :
        (/\ Renders(p)
         /\ \A i \in ReferenceAt(RenderedText(p)) :
               NameAt(RenderedText(p), i) \in Substituted(ToolSpec(call[p].tool))) =>
            /\ result[p].kind # "raise"
            /\ Cardinality(CastAt(frame[p].fetch_sql)) = Cardinality(CastAt(RenderedText(p)))


\* The invocation is a generated tool's call of fetch with enforce_limit false.
Ungoverned(p) == ToolCalled(p) /\ ReachedFetch(p) /\ ~frame[p].enforce_limit
FetchOps(p) == OpsOf(p, {"fetchmany", "fetchall"})
\* The safety validation decides before anything is executed.
StillValidated(p) ==
    /\ StmtExecs(p) # <<>> => Validates(p)
    /\ (pc[p] = "done" /\ ~Validates(p)) => (IsError(result[p]) /\ log[p] = <<>>)
\* What is executed is the text handed to fetch, trimmed, with its macros expanded.
ExecutedAsRendered(p) ==
    \A i \in 1..Len(StmtExecs(p)) :
        StmtExecs(p)[i].sql = expand_macros(Strip(frame[p].fetch_sql))
\* With a cap, no more rows than the cap, asked of the cursor as given; without one,
\* all the rows and truncated false.
FetchedAsAsked(p) ==
    IsSuccess(result[p]) =>
        IF IsNone(frame[p].max_rows)
        THEN /\ FetchOps(p) = <<FetchOp(None)>>
             /\ ~result[p].env.truncated
        ELSE /\ result[p].env.row_count <= frame[p].max_rows.v
             /\ FetchOps(p) = <<[op |-> "fetchmany", sql |-> "", params |-> frame[p].max_rows,
                                 ok |-> TRUE, msg |-> ""]>>

\* C30: when a tool runs with enforce_limit false the safety validation still
\* applies, the statement executed is the macro-expanded, parameter-rendered text
\* with no LIMIT appended or rewritten, at most max_rows rows are fetched when a cap
\* is supplied, the cap being used as given and not clamped to max_limit, and all
\* rows are fetched, with truncated false, when no cap is supplied.
C30_UngovernedFetch ==
    \A p \in Procs :
        Ungoverned(p) => (StillValidated(p) /\ ExecutedAsRendered(p) /\ FetchedAsAsked(p))

====
